---- MODULE Spec2Model ----
(***************************************************************************)
(* A model of the geospatial routing and live-location core of panaqet:    *)
(*   - routing_service.py : ConnectionManager (live-location hub), the     *)
(*     route response cache and the /route, /location handlers;            *)
(*   - graphml.py : region selection, the composed-graph cache and         *)
(*     get_route_on_roads;                                                 *)
(*   - live_location_service.py : the single-shot ingestion service.       *)
(* Time is counted in whole seconds of time.time().                        *)
(***************************************************************************)
EXTENDS Integers, Sequences, FiniteSets, TLC

VARIABLES
    now,          \* time.time(), seconds
    drivers,      \* ConnectionManager._drivers : driver id -> websocket
    monitors,     \* ConnectionManager._monitors : set of websockets
    last_known,   \* ConnectionManager.last_known : driver id -> record
    dconn,        \* per driver websocket: its ws_driver handler and driver id
    mconn,        \* per monitor websocket: connection / ws_monitor handler state
    tasks,        \* broadcast tasks created by receive_from_driver, oldest first
    seq,          \* number of location updates the hub has processed
    last_known_locations, \* live_location_service.py: driver id -> record
    log,          \* history: the updates processed, oldest first
    delivered,    \* history: monitor websocket -> update numbers it was sent
    snapshots,    \* history: update number -> the monitors its broadcast snapshotted
    hints,        \* history: monitor websocket -> the driver id of its last "subscribe:" (or None)
    locations_call, \* the GET /locations request on the threadpool: its position, its count, its locations
    loaded_cache, \* graphml._loaded_cache, in dict order: <<[key, ts, val], ...>>
    persisted,    \* CACHE_DIR: key -> the pickled pair, or NoFile
    ret,          \* what the last graphml call returned (or that it raised)
    call,         \* history: the last graphml call and its endpoints
    workers,      \* worker-pool thread -> where it is in load_composed_subgraph_for_paths
    route_cache,  \* routing_service._route_cache, in dict order: <<[key, ts, val], ...>>
    route_cache_access_order, \* _route_cache_access_order: <<[key, ts], ...>>
    pending,      \* the /route requests waiting on the worker pool, oldest first
    responses,    \* history: the /route requests answered, in order of answer
    flask_cache,  \* driver_routes.FLASK_ROUTE_CACHE with its META: <<[key, ts, val], ...>>
    flask_calls   \* the route_for_delivery requests, in order of arrival

hubVars == <<drivers, monitors, last_known, dconn, mconn, tasks, seq,
             last_known_locations, log, delivered, snapshots, hints,
             locations_call>>

graphVars == <<loaded_cache, persisted, ret, call, workers>>

flaskVars == <<flask_cache, flask_calls>>

cacheVars == <<route_cache, route_cache_access_order, pending, responses, flaskVars>>

vars == <<now, hubVars, graphVars, cacheVars>>

None == "None"

----------------------------------------------------------------------------
(* Bounds of the model.                                                    *)

MaxUpdates == 2      \* location updates processed in one behaviour
MaxHubTicks == 1     \* one-second clock ticks of the hub's clock
MaxHubJumps == 1     \* retention-sized jumps of the hub's clock
MaxGraphTime == 2    \* seconds the clock of the graph cache runs
MaxRequests == 3     \* /route requests issued
MaxRouteTicks == 1   \* seconds the clock of the response cache ticks
MaxRouteJumps == 1   \* TTL-sized jumps of the clock of the response cache

DriverIds == {"D1", "D2"}
DriverSockets == {"A", "B"}      \* websockets opened on /ws/driver/{id}
MonitorSockets == {"M1", "M2"}   \* websockets opened on /ws/monitor
HubMonitors == {"M1"}            \* the observers of SpecHub
RetentionSockets == {"A"}        \* the driver websockets of SpecRetention

----------------------------------------------------------------------------
(* Program constants.                                                      *)

LOCATION_RETENTION_SECONDS == 21600

----------------------------------------------------------------------------
(* JSON values as the handlers see them.  k is the JSON/Python type:       *)
(* "num" a number, "numstr" a string float() parses, "badstr" a string it  *)
(* does not, "null" None, "obj" a dict, "absent" the key is not there.     *)

Num(n) == [k |-> "num", v |-> n]
NumStr(n) == [k |-> "numstr", v |-> n]
BadStr == [k |-> "badstr", v |-> 0]
Null == [k |-> "null", v |-> 0]
Obj(n) == [k |-> "obj", v |-> n]
Absent == [k |-> "absent", v |-> 0]

\* float(x): the number, or an exception (ValueError / TypeError)
FloatRaises(x) == x.k \notin {"num", "numstr"}
FloatOf(x) == Num(x.v)

\* dict.get(key, default)
DictGet(x, default) == IF x.k = "absent" THEN default ELSE x

\* the messages a client sends: "json" FALSE is a frame that receive_json()
\* cannot decode
Msg(lat, lng, ts, meta) == [json |-> TRUE, lat |-> lat, lng |-> lng, ts |-> ts, meta |-> meta]
NotJson == [json |-> FALSE, lat |-> Absent, lng |-> Absent, ts |-> Absent, meta |-> Absent]

ValidMsgs ==
    {Msg(Num(1), Num(7), Absent, Absent),
     Msg(NumStr(2), Num(7), Num(5), Obj(1)),
     Msg(Num(1), Num(7), Null, Absent)}

InvalidMsgs ==
    {Msg(BadStr, Num(7), Absent, Absent),
     Msg(Null, Num(7), Num(5), Absent),
     Msg(Absent, Num(7), Absent, Absent),
     Msg(Num(1), BadStr, Absent, Absent),
     Msg(Num(1), Absent, Absent, Absent),
     NotJson}

DriverMsgs == ValidMsgs \cup InvalidMsgs

FanoutMsgs == {Msg(Num(1), Num(7), Absent, Absent)}

\* the messages of SpecHub: every invalid one and one valid one
HubMsgs == InvalidMsgs \cup {Msg(NumStr(2), Num(7), Num(5), Obj(1))}

NoRecord == [lat |-> Null, lng |-> Null, ts |-> Null, meta |-> Null,
             received_at |-> -1]

----------------------------------------------------------------------------
(* ConnectionManager (routing_service.py).  The asyncio lock is never held *)
(* across an await, so every "async with self._lock" body is one step.     *)
(* websocket.accept() is taken to succeed.                                 *)

connect_driver(drv, driver_id, ws) == [drv EXCEPT ![driver_id] = ws]

disconnect_driver(drv, driver_id) == [drv EXCEPT ![driver_id] = None]

connect_monitor(mons, ws) == mons \cup {ws}

disconnect_monitor(mons, ws) == mons \ {ws}

\* mutant: an update whose ts is older than the stored one is dropped
receive_from_driver_newest_ts(lk, driver_id, data, now_ts) ==
    IF /\ lk[driver_id] # NoRecord
       /\ lk[driver_id].ts.k = "num" /\ DictGet(data.ts, Num(now_ts)).k = "num"
       /\ DictGet(data.ts, Num(now_ts)).v < lk[driver_id].ts.v
    THEN lk
    ELSE [lk EXCEPT ![driver_id] =
            [lat |-> FloatOf(data.lat), lng |-> FloatOf(data.lng),
             ts |-> DictGet(data.ts, Num(now_ts)),
             meta |-> DictGet(data.meta, Obj(0)),
             received_at |-> now_ts]]

\* receive_from_driver: the record stored for driver_id (last-write-wins)
receive_from_driver(lk, driver_id, data, now_ts) ==
    [lk EXCEPT ![driver_id] =
        [lat |-> FloatOf(data.lat),
         lng |-> FloatOf(data.lng),
         ts |-> DictGet(data.ts, Num(now_ts)),
         meta |-> DictGet(data.meta, Obj(0)),
         received_at |-> now_ts]]

get_last_known(lk, driver_id) == lk[driver_id]

\* mutant: the sweep compares the client-supplied ts with the cutoff
cleanup_last_known_by_ts(lk, t) ==
    LET cutoff == t - LOCATION_RETENTION_SECONDS
        to_remove == {k \in DOMAIN lk : lk[k] # NoRecord /\ lk[k].ts.v < cutoff}
    IN [k \in DOMAIN lk |-> IF k \in to_remove THEN NoRecord ELSE lk[k]]

\* mutant: the sweep spares the records of drivers with a registered channel
cleanup_last_known_disconnected(lk, t) ==
    LET cutoff == t - LOCATION_RETENTION_SECONDS
        to_remove == {k \in DOMAIN lk : /\ lk[k] # NoRecord
                                        /\ lk[k].received_at < cutoff
                                        /\ drivers[k] = None}
    IN [k \in DOMAIN lk |-> IF k \in to_remove THEN NoRecord ELSE lk[k]]

\* cleanup_last_known: pop every record received before the cutoff
cleanup_last_known(lk, t) ==
    LET cutoff == t - LOCATION_RETENTION_SECONDS
        to_remove == {k \in DOMAIN lk : lk[k] # NoRecord /\ lk[k].received_at < cutoff}
    IN [k \in DOMAIN lk |-> IF k \in to_remove THEN NoRecord ELSE lk[k]]

\* the task receive_from_driver creates for the update numbered n
NewTask(n) == [id |-> n, st |-> "created", todo |-> {}]

RemoveAt(s, i) == [j \in 1..(Len(s) - 1) |-> IF j < i THEN s[j] ELSE s[j + 1]]

\* the update is stored and its broadcast task is created (not awaited)
AcceptUpdate(driver_id, data, via) ==
    /\ seq < MaxUpdates
    /\ last_known' = receive_from_driver(last_known, driver_id, data, now)
    /\ seq' = seq + 1
    /\ tasks' = Append(tasks, NewTask(seq + 1))
    /\ log' = Append(log, [svc |-> "hub", via |-> via, driver |-> driver_id,
                            lat |-> data.lat, lng |-> data.lng, ts |-> data.ts,
                            meta |-> data.meta, at |-> now])
    /\ UNCHANGED last_known_locations

----------------------------------------------------------------------------
(* ws_driver: one websocket of a driver.                                   *)

ws_driver_connect(ws, driver_id) ==
    /\ dconn[ws].st = "new"
    /\ dconn' = [dconn EXCEPT ![ws] = [st |-> "open", id |-> driver_id]]
    /\ drivers' = connect_driver(drivers, driver_id, ws)
    /\ UNCHANGED <<graphVars, cacheVars, locations_call, hints, now, monitors, last_known, mconn, tasks, seq, last_known_locations, log, delivered, snapshots>>

\* a frame that is not JSON, or a message without lat or lng: "continue"
MsgIgnored(msg) == ~msg.json \/ msg.lat.k = "absent" \/ msg.lng.k = "absent"

\* float(msg["lat"]) or float(msg["lng"]) raises
MsgRaises(msg) == ~MsgIgnored(msg) /\ (FloatRaises(msg.lat) \/ FloatRaises(msg.lng))

ws_driver_ignore(ws, msg) ==
    /\ dconn[ws].st = "open"
    /\ MsgIgnored(msg)
    /\ UNCHANGED vars

\* the exception leaves the receive loop: except Exception -> disconnect_driver
ws_driver_error(ws, msg) ==
    /\ dconn[ws].st = "open"
    /\ MsgRaises(msg)
    /\ drivers' = disconnect_driver(drivers, dconn[ws].id)
    /\ dconn' = [dconn EXCEPT ![ws].st = "closed"]
    /\ UNCHANGED <<graphVars, cacheVars, locations_call, hints, now, monitors, last_known, mconn, tasks, seq, last_known_locations, log, delivered, snapshots>>

ws_driver_location(ws, msg) ==
    /\ dconn[ws].st = "open"
    /\ ~MsgIgnored(msg) /\ ~MsgRaises(msg)
    /\ AcceptUpdate(dconn[ws].id,
                    [lat |-> FloatOf(msg.lat), lng |-> FloatOf(msg.lng),
                     ts |-> DictGet(msg.ts, Num(now)),
                     meta |-> DictGet(msg.meta, Obj(0))], "ws")
    /\ UNCHANGED <<graphVars, cacheVars, locations_call, hints, now, drivers, monitors, dconn, mconn, delivered, snapshots>>

\* WebSocketDisconnect: the client closed the socket
ws_driver_disconnect(ws) ==
    /\ dconn[ws].st = "open"
    /\ drivers' = disconnect_driver(drivers, dconn[ws].id)
    /\ dconn' = [dconn EXCEPT ![ws].st = "closed"]
    /\ UNCHANGED <<graphVars, cacheVars, locations_call, hints, now, monitors, last_known, mconn, tasks, seq, last_known_locations, log, delivered, snapshots>>

----------------------------------------------------------------------------
(* POST /location (routing_service.py): LocationPayload validates the body *)
(* before the handler runs.                                                *)

PayloadValid(msg) ==
    /\ msg.json
    /\ ~FloatRaises(msg.lat) /\ ~FloatRaises(msg.lng)
    /\ msg.ts.k \in {"absent", "null", "num", "numstr"}
    /\ msg.meta.k \in {"absent", "null", "obj"}

post_location(driver_id, msg) ==
    /\ PayloadValid(msg)
    /\ AcceptUpdate(driver_id,
                    [lat |-> FloatOf(msg.lat), lng |-> FloatOf(msg.lng),
                     ts |-> IF msg.ts.k \in {"absent", "null"} THEN Num(now)
                            ELSE FloatOf(msg.ts),
                     meta |-> IF msg.meta.k \in {"absent", "null"} THEN Obj(0)
                              ELSE msg.meta], "http")
    /\ UNCHANGED <<graphVars, cacheVars, locations_call, hints, now, drivers, monitors, dconn, mconn, delivered, snapshots>>

post_location_rejected(driver_id, msg) ==
    /\ ~PayloadValid(msg)
    /\ UNCHANGED vars

----------------------------------------------------------------------------
(* live_location_service.py: the single-shot ingestion service with its    *)
(* own table.  nats_connected keeps its initial value False: the bus is an *)
(* external collaborator, so store_last_known only writes the table.       *)

store_last_known(lk, driver_id, payload, t) ==
    [lk EXCEPT ![driver_id] =
        [lat |-> payload.lat, lng |-> payload.lng, ts |-> payload.ts,
         meta |-> payload.meta, received_at |-> t]]

\* post_location answers 400: no JSON, or lat / lng missing or null
FlaskMissing(msg) == ~msg.json \/ msg.lat.k \in {"absent", "null"}
                               \/ msg.lng.k \in {"absent", "null"}

\* float(lat) or float(lng) raises: the request fails before the table is written
FlaskRaises(msg) == ~FlaskMissing(msg) /\ (FloatRaises(msg.lat) \/ FloatRaises(msg.lng))

flask_post_location(driver_id, msg) ==
    /\ ~FlaskMissing(msg) /\ ~FlaskRaises(msg)
    /\ seq < MaxUpdates
    /\ LET data == [lat |-> FloatOf(msg.lat), lng |-> FloatOf(msg.lng),
                    ts |-> DictGet(msg.ts, Num(now)),
                    meta |-> DictGet(msg.meta, Obj(0))]
       IN /\ last_known_locations' =
                store_last_known(last_known_locations, driver_id, data, now)
          /\ log' = Append(log, [svc |-> "flask", via |-> "http", driver |-> driver_id,
                                  lat |-> data.lat, lng |-> data.lng, ts |-> data.ts,
                                  meta |-> data.meta, at |-> now])
    /\ seq' = seq + 1
    /\ UNCHANGED <<graphVars, cacheVars, locations_call, hints, now, drivers, monitors, last_known, dconn, mconn, tasks, delivered, snapshots>>

flask_post_location_rejected(driver_id, msg) ==
    /\ FlaskMissing(msg) \/ FlaskRaises(msg)
    /\ UNCHANGED vars

----------------------------------------------------------------------------
(* ws_monitor: one websocket of an observer.  "dead" is a socket whose     *)
(* client is gone and whose handler has not yet seen WebSocketDisconnect.  *)

ws_monitor_connect(ws) ==
    /\ mconn[ws] = "new"
    /\ mconn' = [mconn EXCEPT ![ws] = "open"]
    /\ monitors' = connect_monitor(monitors, ws)
    /\ UNCHANGED <<graphVars, cacheVars, locations_call, hints, now, drivers, last_known, dconn, tasks, seq, last_known_locations, log, delivered, snapshots>>

monitor_drop(ws) ==
    /\ mconn[ws] = "open"
    /\ mconn' = [mconn EXCEPT ![ws] = "dead"]
    /\ UNCHANGED <<graphVars, cacheVars, locations_call, hints, now, drivers, monitors, last_known, dconn, tasks, seq, last_known_locations, log, delivered, snapshots>>

\* the observer sends "subscribe:<driver_id>": the handler answers
\* "subscribed" and keeps nothing
ws_monitor_subscribe(ws, driver_id) ==
    /\ mconn[ws] = "open"
    /\ hints' = [hints EXCEPT ![ws] = driver_id]
    /\ UNCHANGED <<graphVars, cacheVars, locations_call, now, drivers, monitors, last_known, dconn, mconn,
                   tasks, seq, last_known_locations, log, delivered, snapshots>>

ws_monitor_disconnect(ws) ==
    /\ mconn[ws] = "dead"
    /\ mconn' = [mconn EXCEPT ![ws] = "closed"]
    /\ monitors' = disconnect_monitor(monitors, ws)
    /\ UNCHANGED <<graphVars, cacheVars, locations_call, hints, now, drivers, last_known, dconn, tasks, seq, last_known_locations, log, delivered, snapshots>>

----------------------------------------------------------------------------
(* _broadcast_to_monitors_safe: a task first snapshots the monitor set,    *)
(* then gathers one _safe_send per snapshot member; the sends of one task  *)
(* and of different tasks complete in any order.  Tasks start in the order *)
(* they were created (the event loop runs ready tasks first-in first-out). *)

FirstCreated == IF \E i \in 1..Len(tasks) : tasks[i].st = "created"
                THEN CHOOSE i \in 1..Len(tasks) :
                        /\ tasks[i].st = "created"
                        /\ \A j \in 1..(i - 1) : tasks[j].st # "created"
                ELSE 0

\* the task list after the send of task i to ws has ended (either way):
\* gather() returns once every send has
AfterSend(ts, i, ws) ==
    IF ts[i].todo = {ws}
    THEN RemoveAt(ts, i)
    ELSE [ts EXCEPT ![i].todo = @ \ {ws}]

\* mutant: the first failing send ends the whole gather
AfterFailedSendAbort(ts, i, ws) == RemoveAt(ts, i)

\* gather(..., return_exceptions=True) over _safe_send, which catches the
\* failure of its own send: the other sends of the task go on
AfterFailedSend(ts, i, ws) == AfterSend(ts, i, ws)

\* mutant: the broadcast goes to the observers without a hint and to those
\* whose hint names the driver of the update
SnapshotHinted(mons, hnts, driver_id) ==
    {ws \in mons : hnts[ws] \in {None, driver_id}}

\* monitors = list(self._monitors): every registered observer, whatever it
\* subscribed to
Snapshot(mons, hnts, driver_id) == mons

broadcast_snapshot ==
    /\ FirstCreated # 0
    /\ \E scope \in {Snapshot(monitors, hints, log[tasks[FirstCreated].id].driver)} :
       /\ LET i == FirstCreated IN
           tasks' = IF scope = {}
                    THEN RemoveAt(tasks, i)
                    ELSE [tasks EXCEPT ![i] = [@ EXCEPT !.st = "sending", !.todo = scope]]
       /\ snapshots' = [snapshots EXCEPT ![tasks[FirstCreated].id] = scope]
    /\ UNCHANGED <<graphVars, cacheVars, locations_call, hints, now, drivers, monitors, last_known, dconn, mconn, seq, last_known_locations, log, delivered>>

\* _safe_send: ws.send_json succeeded
safe_send_ok(i, ws) ==
    /\ i \in 1..Len(tasks)
    /\ tasks[i].st = "sending" /\ ws \in tasks[i].todo
    /\ mconn[ws] = "open"
    /\ delivered' = [delivered EXCEPT ![ws] = Append(@, tasks[i].id)]
    /\ tasks' = AfterSend(tasks, i, ws)
    /\ UNCHANGED <<graphVars, cacheVars, locations_call, hints, now, drivers, monitors, last_known, dconn, mconn, seq,
                   last_known_locations, log, snapshots>>

\* _safe_send: ws.send_json raised; the handler deregisters the channel
safe_send_fail(i, ws) ==
    /\ i \in 1..Len(tasks)
    /\ tasks[i].st = "sending" /\ ws \in tasks[i].todo
    /\ mconn[ws] # "open"
    /\ monitors' = disconnect_monitor(monitors, ws)
    /\ tasks' = AfterFailedSend(tasks, i, ws)
    /\ UNCHANGED <<graphVars, cacheVars, locations_call, hints, now, drivers, last_known, dconn, mconn, seq, last_known_locations, log, delivered, snapshots>>

----------------------------------------------------------------------------
(* _periodic_cleanup_task and the clock.                                   *)

periodic_cleanup ==
    /\ last_known' = cleanup_last_known(last_known, now)
    /\ UNCHANGED <<graphVars, cacheVars, locations_call, hints, now, drivers, monitors, dconn, mconn, tasks, seq, last_known_locations, log, delivered, snapshots>>

HubTick ==
    /\ \/ /\ now % LOCATION_RETENTION_SECONDS < MaxHubTicks
          /\ now' = now + 1
       \/ /\ now \div LOCATION_RETENTION_SECONDS < MaxHubJumps
          /\ now' = now + LOCATION_RETENTION_SECONDS
    /\ UNCHANGED <<hubVars, graphVars, cacheVars>>

----------------------------------------------------------------------------
(* get_locations is a plain def: the server runs it on a thread of its     *)
(* pool while the handlers of the event loop go on.  It calls              *)
(* manager.get_last_known() twice, once for "count" and once for           *)
(* "locations", and the interpreter can switch threads between the two     *)
(* calls; each call is a step of its own.                                  *)

IdleQuery == [pc |-> "idle", count |-> 0, locations |-> <<>>]

\* get_last_known() without a driver id: self.last_known.copy()
get_last_known_all(lk) == [d \in {k \in DOMAIN lk : lk[k] # NoRecord} |-> lk[d]]

\* len(manager.get_last_known()): the first copy, kept for its length only
get_locations_count ==
    /\ locations_call.pc \in {"idle", "done"}
    /\ locations_call' =
           [pc |-> "counted",
            count |-> Cardinality(DOMAIN get_last_known_all(last_known)),
            locations |-> <<>>]
    /\ UNCHANGED <<now, graphVars, cacheVars, drivers, monitors, last_known, dconn,
                   mconn, tasks, seq, last_known_locations, log, delivered,
                   snapshots, hints>>

\* "locations": manager.get_last_known(): the second copy; the response
get_locations_return ==
    /\ locations_call.pc = "counted"
    /\ locations_call' =
           [pc |-> "done", count |-> locations_call.count,
            locations |-> get_last_known_all(last_known)]
    /\ UNCHANGED <<now, graphVars, cacheVars, drivers, monitors, last_known, dconn,
                   mconn, tasks, seq, last_known_locations, log, delivered,
                   snapshots, hints>>

----------------------------------------------------------------------------
(* graphml.py: region files and the cache key.  A path is the sequence of  *)
(* its characters; strings compare by code point, as Python's sorted().    *)

PathA == <<"d", "/", "a">>
PathB == <<"d", "/", "b">>

RegionPaths == {PathA, PathB}

CharCode(c) ==
    CASE c = " " -> 32 [] c = "/" -> 47 [] c = ":" -> 58 [] c = "_" -> 95
      [] c = "a" -> 97 [] c = "b" -> 98 [] c = "c" -> 99
      [] c = "d" -> 100 [] c = "|" -> 124

StrLess(x, y) ==
    \E i \in 1..(Len(y)) :
        /\ \A j \in 1..(i - 1) : j <= Len(x) /\ x[j] = y[j]
        /\ i - 1 <= Len(x)
        /\ \/ i > Len(x)
           \/ CharCode(x[i]) < CharCode(y[i])

\* sorted(): insertion of x into a sorted list, after the entries not above it
RECURSIVE SortedInsert(_, _)
SortedInsert(x, sorted) ==
    IF sorted = <<>> THEN <<x>>
    ELSE IF StrLess(x, Head(sorted)) THEN <<x>> \o sorted
         ELSE <<Head(sorted)>> \o SortedInsert(x, Tail(sorted))

RECURSIVE SortedStrs(_)
SortedStrs(paths) ==
    IF paths = <<>> THEN <<>>
    ELSE SortedInsert(paths[Len(paths)], SortedStrs(SubSeq(paths, 1, Len(paths) - 1)))

RECURSIVE JoinBar(_)
JoinBar(paths) ==
    IF paths = <<>> THEN <<>>
    ELSE IF Len(paths) = 1 THEN paths[1]
         ELSE paths[1] \o <<"|">> \o JoinBar(Tail(paths))

\* _cache_key_for_paths: "|".join(sorted(paths)) with os.sep, ":" and " "
\* replaced by "_"
_cache_key_for_paths(paths) ==
    LET base == JoinBar(SortedStrs(paths))
    IN [i \in 1..Len(base) |-> IF base[i] \in {"/", ":", " "} THEN "_" ELSE base[i]]

\* the path lists load_composed_subgraph_for_paths is called with
LoadInputs == {<<PathA>>, <<PathB>>, <<PathA, PathB>>, <<PathB, PathA>>}

\* region files whose names differ in a character the key replaces, and
\* one whose name holds the "|" of the join
PathSp == <<"d", "/", "a", " ", "b">>
PathUs == <<"d", "/", "a", "_", "b">>
PathBar == <<"d", "/", "a", "|", "d", "/", "b">>

\* the path lists of SpecKeys
KeyInputs ==
    {<<PathSp>>, <<PathUs>>, <<PathBar>>, <<PathA, PathB>>, <<PathB, PathA>>,
     <<PathSp, PathA>>, <<PathA, PathSp>>}

CacheKeys == {_cache_key_for_paths(paths) : paths \in LoadInputs \cup KeyInputs}

\* no pickled pair under a key
NoFile == [simple |-> FALSE, unproj |-> {}]

NoReturn == [kind |-> "none"]

Raised(exc) == [kind |-> "raised", exc |-> exc]

NoCall == [op |-> "none"]

----------------------------------------------------------------------------
(* The composed-graph cache.  A graph triple (G_unproj, G_proj, G_simple)  *)
(* is [unproj, proj, simple]: unproj is the set of region files whose      *)
(* graphs were composed ({} for None), proj and simple tell whether the    *)
(* projected and the simplified graph are there (FALSE for None).          *)

MAX_LOADED_COMPOSED == 2

NullTriple == [unproj |-> {}, proj |-> FALSE, simple |-> FALSE]

\* what can go wrong in one load: nothing, reading the pickled pair,
\* nx.compose_all, ox.project_graph, the simplification, writing the pickles
LoadFaults == {"none", "read_persisted", "compose", "project", "simple", "persist"}

\* the region files that ox.load_graphml cannot load during one call
BadFileSets == {{}, {PathB}, RegionPaths}

\* one call meets at most one trouble: a fault, or unloadable files
LoadTroubles ==
    {<<fault, {}>> : fault \in LoadFaults} \cup {<<"none", bad>> : bad \in BadFileSets}

\* the calls that run on the worker pool meet no fault of a library: the
\* region files load, or none of them does
WorkerTroubles == {<<"none", {}>>, <<"none", RegionPaths>>}

CacheIndex(cache, key) ==
    IF \E i \in DOMAIN cache : cache[i].key = key
    THEN CHOOSE i \in DOMAIN cache : cache[i].key = key
    ELSE 0

\* _loaded_cache[key] = (ts, val): a present key keeps its place in the dict
CachePut(cache, key, t, val) ==
    IF CacheIndex(cache, key) # 0
    THEN [cache EXCEPT ![CacheIndex(cache, key)] = [key |-> key, ts |-> t, val |-> val]]
    ELSE Append(cache, [key |-> key, ts |-> t, val |-> val])

\* mutant: the entry with the latest timestamp is taken
NewestIndex(cache) ==
    CHOOSE i \in DOMAIN cache :
        /\ \A j \in DOMAIN cache : cache[i].ts >= cache[j].ts
        /\ \A j \in 1..(i - 1) : cache[j].ts < cache[i].ts

\* the head of sorted(items, key=ts): the first entry with the least ts
OldestIndex(cache) ==
    CHOOSE i \in DOMAIN cache :
        /\ \A j \in DOMAIN cache : cache[i].ts <= cache[j].ts
        /\ \A j \in 1..(i - 1) : cache[j].ts > cache[i].ts

\* mutant: nothing is ever evicted
_evict_never(cache) == cache

\* _evict_if_needed: delete the oldest entries until within capacity
RECURSIVE _evict_if_needed(_)
_evict_if_needed(cache) ==
    IF Len(cache) <= MAX_LOADED_COMPOSED THEN cache
    ELSE _evict_if_needed(RemoveAt(cache, OldestIndex(cache)))

\* key = _cache_key_for_paths(sorted(paths)), tabulated for the path lists
\* in play
KeyOfPaths ==
    [paths \in LoadInputs \cup KeyInputs |-> _cache_key_for_paths(SortedStrs(paths))]

\* mutant: the null triple is cached under the key like a composed one
NoGraphsCached(cache, disk, key, t) ==
    [cache |-> _evict_if_needed(CachePut(cache, key, t, NullTriple)), disk |-> disk,
     out |-> [kind |-> "triple", val |-> NullTriple]]

\* "if not graphs: return (None, None, None)": nothing is stored
NoGraphs(cache, disk, key, t) ==
    [cache |-> cache, disk |-> disk, out |-> [kind |-> "triple", val |-> NullTriple]]

\* mutant: an unreadable persisted entry makes the load raise
ReadFailedRaises(rebuilt) ==
    [cache |-> rebuilt.cache, disk |-> rebuilt.disk, out |-> Raised("UnpicklingError"),
     tried |-> {}, info |-> "none"]

\* "except Exception: LOG.warning(...)" around the read of the persisted
\* entry: the load goes on to the region files
ReadFailed(rebuilt) == rebuilt

\* load_composed_subgraph_for_paths(paths, persist) at time t, with the
\* fault and the unloadable files of this call: the cache and the disk
\* after it, the triple it returns (or that it raised), the region files
\* it tried to load with ox.load_graphml, and which cache its LOG.info line
\* names ("none" when it names none)
load_composed_subgraph_for_paths(cache, disk, paths, persist, t, fault, bad) ==
    LET key == KeyOfPaths[paths]
        files == {paths[i] : i \in DOMAIN paths}
        graphs == files \ bad
        proj == fault # "project"
        simple == proj /\ fault # "simple"
        fresh == [unproj |-> graphs, proj |-> proj, simple |-> simple]
        fromDisk == [unproj |-> disk[key].unproj, proj |-> TRUE,
                     simple |-> disk[key].simple]
        rebuilt ==
            IF graphs = {}
            THEN NoGraphs(cache, disk, key, t) @@ [tried |-> files, info |-> "none"]
            ELSE IF Cardinality(graphs) > 1 /\ fault = "compose"
            THEN [cache |-> cache, disk |-> disk, out |-> Raised("NetworkXError"),
                  tried |-> files, info |-> "none"]
            ELSE [cache |-> _evict_if_needed(CachePut(cache, key, t, fresh)),
                  disk |-> IF persist /\ fault # "persist"
                           THEN [disk EXCEPT ![key] = [simple |-> simple, unproj |-> graphs]]
                           ELSE disk,
                  out |-> [kind |-> "triple", val |-> fresh],
                  tried |-> files,
                  info |-> IF persist /\ fault # "persist" THEN "saved" ELSE "none"]
    IN  IF CacheIndex(cache, key) # 0
        THEN [cache |-> CachePut(cache, key, t, cache[CacheIndex(cache, key)].val),
              disk |-> disk,
              out |-> [kind |-> "triple", val |-> cache[CacheIndex(cache, key)].val],
              tried |-> {}, info |-> "in-memory"]
        ELSE IF disk[key] # NoFile
        THEN IF fault \notin {"read_persisted", "project"}
             THEN [cache |-> _evict_if_needed(CachePut(cache, key, t, fromDisk)),
                   disk |-> disk,
                   out |-> [kind |-> "triple", val |-> fromDisk],
                   tried |-> {}, info |-> "disk cache"]
             ELSE ReadFailed(rebuilt)
        ELSE rebuilt

\* a caller loads a path list (the startup preload does, with persist=True)
Load(paths, persist, fault, bad) ==
    \E r \in {load_composed_subgraph_for_paths(loaded_cache, persisted, paths,
                                               persist, now, fault, bad)} :
       /\ loaded_cache' = r.cache
       /\ persisted' = r.disk
       /\ ret' = r.out
       /\ call' = [op |-> "load"]
       /\ UNCHANGED <<now, hubVars, cacheVars, workers>>

\* the clock of SpecLoads runs to MaxLoadTime
MaxLoadTime == 1

LoadTick ==
    /\ now < MaxLoadTime
    /\ now' = now + 1
    /\ UNCHANGED <<hubVars, graphVars, cacheVars>>

\* the troubles of a recorded load: those of LoadTroubles, and an unreadable
\* persisted entry together with region files that do not load
LoadCallTroubles ==
    LoadTroubles \cup {<<"read_persisted", {PathB}>>, <<"read_persisted", RegionPaths>>}

\* load_composed_subgraph_for_paths(paths, persist=True) as get_route_on_roads
\* and the preload call it; the call, the files it tried and the cache its
\* LOG.info line names are kept in call
LoadCall(paths, fault, bad) ==
    \E r \in {load_composed_subgraph_for_paths(loaded_cache, persisted, paths,
                                               TRUE, now, fault, bad)} :
       /\ loaded_cache' = r.cache
       /\ persisted' = r.disk
       /\ ret' = r.out
       /\ call' = [op |-> "load", paths |-> paths, fault |-> fault, bad |-> bad,
                   tried |-> r.tried, info |-> r.info]
       /\ UNCHANGED <<now, hubVars, cacheVars, workers>>

GraphTick ==
    /\ now < MaxGraphTime
    /\ now' = now + 1
    /\ UNCHANGED <<hubVars, graphVars, cacheVars>>

----------------------------------------------------------------------------
(* load_composed_subgraph_for_paths on the threads of the worker pool      *)
(* (loop.run_in_executor(None, ...)).  The interpreter can switch threads  *)
(* between any two accesses of _loaded_cache, so each access is a step of  *)
(* its own; what a thread does on its locals and on the disk between two   *)
(* accesses belongs to the step of the access that follows or precedes.    *)

Threads == {"T1", "T2"}

\* the region selections the pool is asked to load: three cache keys
WorkerInputs == {<<PathA>>, <<PathB>>, <<PathA, PathB>>}

\* the calls made by all threads together
MaxCalls == 4

IdleWorker == [pc |-> "idle", n |-> 0, paths |-> <<>>, t |-> 0, val |-> NullTriple,
               items |-> <<>>, k |-> <<>>, out |-> NoReturn]

CallsMade == workers["T1"].n + workers["T2"].n

\* sorted(_loaded_cache.items(), key=ts): the keys, oldest first, ties in
\* dict order
RECURSIVE SortedItems(_)
SortedItems(cache) ==
    IF cache = <<>> THEN <<>>
    ELSE <<cache[OldestIndex(cache)].key>>
         \o SortedItems(RemoveAt(cache, OldestIndex(cache)))

WorkerStep(th, w) ==
    /\ workers' = [workers EXCEPT ![th] = w]
    /\ UNCHANGED <<hubVars, cacheVars, ret, call>>

\* a pool thread starts load_composed_subgraph_for_paths(paths, persist)
worker_call(th, paths) ==
    /\ workers[th].pc = "idle"
    /\ CallsMade < MaxCalls
    /\ WorkerStep(th, [IdleWorker EXCEPT !.pc = "check", !.n = workers[th].n + 1,
                                         !.paths = paths])
    /\ UNCHANGED <<now, loaded_cache, persisted>>

\* if key in _loaded_cache
worker_check(th) ==
    /\ workers[th].pc = "check"
    /\ WorkerStep(th, [workers[th] EXCEPT
            !.pc = IF CacheIndex(loaded_cache, KeyOfPaths[workers[th].paths]) # 0
                   THEN "hit_read" ELSE "build"])
    /\ UNCHANGED <<now, loaded_cache, persisted>>

\* the right-hand side (time.time(), _loaded_cache[key][1]): KeyError when
\* the key has been deleted since the test
worker_hit_read(th) ==
    /\ workers[th].pc = "hit_read"
    /\ LET i == CacheIndex(loaded_cache, KeyOfPaths[workers[th].paths])
       IN  WorkerStep(th, IF i = 0
                          THEN [workers[th] EXCEPT !.pc = "idle", !.out = Raised("KeyError")]
                          ELSE [workers[th] EXCEPT !.pc = "hit_store", !.t = now,
                                                   !.val = loaded_cache[i].val])
    /\ UNCHANGED <<now, loaded_cache, persisted>>

\* _loaded_cache[key] = (timestamp, value): no eviction follows a refresh
worker_hit_store(th) ==
    /\ workers[th].pc = "hit_store"
    /\ loaded_cache' = CachePut(loaded_cache, KeyOfPaths[workers[th].paths],
                                workers[th].t, workers[th].val)
    /\ WorkerStep(th, [workers[th] EXCEPT !.pc = "hit_return"])
    /\ UNCHANGED <<now, persisted>>

\* return _loaded_cache[key][1]
worker_hit_return(th) ==
    /\ workers[th].pc = "hit_return"
    /\ LET i == CacheIndex(loaded_cache, KeyOfPaths[workers[th].paths])
       IN  WorkerStep(th, [workers[th] EXCEPT
               !.pc = "idle",
               !.out = IF i = 0 THEN Raised("KeyError")
                       ELSE [kind |-> "triple", val |-> loaded_cache[i].val]])
    /\ UNCHANGED <<now, loaded_cache, persisted>>

\* the miss, up to the insert (both callers pass persist=True): the pickled
\* pair or the region files give the triple; the null triple ends the call
worker_build(th, fault, bad) ==
    /\ workers[th].pc = "build"
    /\ \E r \in {load_composed_subgraph_for_paths(<<>>, persisted, workers[th].paths,
                                                   TRUE, now, fault, bad)} :
          /\ persisted' = r.disk
          /\ WorkerStep(th, IF r.cache = <<>>
                            THEN [workers[th] EXCEPT !.pc = "idle", !.out = r.out]
                            ELSE [workers[th] EXCEPT !.pc = "insert", !.val = r.out.val])
    /\ UNCHANGED <<now, loaded_cache>>

\* _loaded_cache[key] = (time.time(), (G_unproj, G_proj, G_simple))
worker_insert(th) ==
    /\ workers[th].pc = "insert"
    /\ loaded_cache' = CachePut(loaded_cache, KeyOfPaths[workers[th].paths], now,
                                workers[th].val)
    /\ WorkerStep(th, [workers[th] EXCEPT !.pc = "evict"])
    /\ UNCHANGED <<now, persisted>>

\* _evict_if_needed: if len(_loaded_cache) <= MAX_LOADED_COMPOSED: return
worker_evict(th) ==
    /\ workers[th].pc = "evict"
    /\ WorkerStep(th, IF Len(loaded_cache) <= MAX_LOADED_COMPOSED
                      THEN [workers[th] EXCEPT
                               !.pc = "idle",
                               !.out = [kind |-> "triple", val |-> workers[th].val]]
                      ELSE [workers[th] EXCEPT !.pc = "sort"])
    /\ UNCHANGED <<now, loaded_cache, persisted>>

\* items = sorted(_loaded_cache.items(), key=lambda kv: kv[1][0])
worker_sort(th) ==
    /\ workers[th].pc = "sort"
    /\ WorkerStep(th, [workers[th] EXCEPT !.pc = "loop", !.items = SortedItems(loaded_cache)])
    /\ UNCHANGED <<now, loaded_cache, persisted>>

\* while len(_loaded_cache) > MAX_LOADED_COMPOSED: k, _ = items.pop(0), an
\* IndexError when the list has run out
worker_loop(th) ==
    /\ workers[th].pc = "loop"
    /\ WorkerStep(th,
          IF Len(loaded_cache) <= MAX_LOADED_COMPOSED
          THEN [workers[th] EXCEPT !.pc = "idle", !.items = <<>>,
                                   !.out = [kind |-> "triple", val |-> workers[th].val]]
          ELSE IF workers[th].items = <<>>
          THEN [workers[th] EXCEPT !.pc = "idle", !.out = Raised("IndexError")]
          ELSE [workers[th] EXCEPT !.pc = "del", !.k = Head(workers[th].items),
                                   !.items = Tail(workers[th].items)])
    /\ UNCHANGED <<now, loaded_cache, persisted>>

\* del _loaded_cache[k], a KeyError is passed over
worker_del(th) ==
    /\ workers[th].pc = "del"
    /\ LET i == CacheIndex(loaded_cache, workers[th].k)
       IN  loaded_cache' = IF i = 0 THEN loaded_cache ELSE RemoveAt(loaded_cache, i)
    /\ WorkerStep(th, [workers[th] EXCEPT !.pc = "loop", !.k = <<>>])
    /\ UNCHANGED <<now, persisted>>

----------------------------------------------------------------------------
(* graphml.py: the road world.  Coordinates are whole multiples of 1e-8    *)
(* degree.  The nodes lie on one parallel, so that nearest by great-circle *)
(* distance is nearest by longitude.                                       *)

\* a point {'lat': .., 'lng': ..}; None and {} are the missing endpoints
Pt(lng, lat) == [k |-> "dict", lng |-> lng, lat |-> lat]
NonePoint == [k |-> "None", lng |-> 0, lat |-> 0]
EmptyDict == [k |-> "empty", lng |-> 0, lat |-> 0]

\* `not p`
Falsy(p) == p.k # "dict"

P10 == Pt(10, 10)
P12 == Pt(12, 10)
P50 == Pt(50, 10)
P70 == Pt(70, 10)
PFar == Pt(10, 50)

Points == {P10, P12, P50, P70, PFar}
Endpoints == Points \cup {NonePoint, EmptyDict}

\* region_index.json, in file order: name -> {"path": .., "bbox": ..};
\* bbox = <<minx, miny, maxx, maxy>>
Entry(name, has_path, path, has_bbox, bbox) ==
    [name |-> name, has_path |-> has_path, path |-> path,
     has_bbox |-> has_bbox, bbox |-> bbox]

GoodIndex ==
    << Entry("a", TRUE, PathA, TRUE, <<0, 0, 40, 20>>),
       Entry("b", TRUE, PathB, TRUE, <<30, 0, 80, 20>>) >>

\* no region file was found
EmptyIndex == <<>>

\* an index file whose second entry has no "path"
NoPathIndex ==
    << Entry("a", TRUE, PathA, TRUE, <<0, 0, 40, 20>>),
       Entry("b", FALSE, <<>>, TRUE, <<30, 0, 80, 20>>) >>

RegionIndexes == {GoodIndex, EmptyIndex, NoPathIndex}

\* a point given as a (lat, lon) pair
Tup(lat, lon) == [k |-> "tuple", v |-> <<lat, lon>>]

\* pts.append((p['lng'], p['lat'])) for a dict, lat, lon = p;
\* pts.append((lon, lat)) for a pair
NormPoint(p) ==
    IF p.k = "tuple" THEN [lng |-> p.v[2], lat |-> p.v[1]]
    ELSE [lng |-> p.lng, lat |-> p.lat]

\* mutant: the edges of the bbox are outside
_point_in_bbox_strict(lon, lat, bbox) ==
    lon > bbox[1] /\ lon < bbox[3] /\ lat > bbox[2] /\ lat < bbox[4]

_point_in_bbox(lon, lat, bbox) ==
    lon >= bbox[1] /\ lon <= bbox[3] /\ lat >= bbox[2] /\ lat <= bbox[4]

\* sorted(set of strings)
RECURSIVE SortedOfSet(_)
SortedOfSet(S) ==
    IF S = {} THEN <<>>
    ELSE LET least == CHOOSE x \in S : \A y \in S : ~StrLess(y, x)
         IN <<least>> \o SortedOfSet(S \ {least})

\* (lon - cx) ** 2 + (lat - cy) ** 2 with cx, cy the centre of the bbox,
\* times four (the centre is a half-integer)
CenterDist4(p, bbox) ==
    LET dx == 2 * p.lng - (bbox[1] + bbox[3])
        dy == 2 * p.lat - (bbox[2] + bbox[4])
    IN dx * dx + dy * dy

\* mutant: the entry with the farthest centre is taken
FarthestEntry(p, index) ==
    LET withBox == {i \in DOMAIN index : index[i].has_bbox}
    IN CHOOSE i \in withBox :
          \A j \in withBox : CenterDist4(p, index[i].bbox) >= CenterDist4(p, index[j].bbox)

\* the first entry with a bbox whose centre is strictly nearest to p
NearestEntry(p, index) ==
    LET withBox == {i \in DOMAIN index : index[i].has_bbox}
    IN CHOOSE i \in withBox :
          /\ \A j \in withBox : CenterDist4(p, index[i].bbox) <= CenterDist4(p, index[j].bbox)
          /\ \A j \in withBox : j < i =>
                CenterDist4(p, index[j].bbox) > CenterDist4(p, index[i].bbox)

\* find_regions_for_points(points, index): the sorted paths, or that
\* meta["path"] raised KeyError
find_regions_for_points(points, index) ==
    LET pts == [n \in DOMAIN points |-> NormPoint(points[n])]
        hits == {i \in DOMAIN index :
                    /\ index[i].has_bbox
                    /\ \E n \in DOMAIN pts :
                          _point_in_bbox(pts[n].lng, pts[n].lat, index[i].bbox)}
        withBox == {i \in DOMAIN index : index[i].has_bbox}
    IN  IF \E i \in hits : ~index[i].has_path
        THEN [raised |-> TRUE, paths |-> <<>>]
        ELSE IF hits # {}
        THEN [raised |-> FALSE, paths |-> SortedOfSet({index[i].path : i \in hits})]
        ELSE IF \E i \in withBox : ~index[i].has_path
        THEN [raised |-> TRUE, paths |-> <<>>]
        ELSE IF withBox = {}
        THEN [raised |-> FALSE, paths |-> <<>>]
        ELSE [raised |-> FALSE,
              paths |-> SortedOfSet({index[NearestEntry(pts[n], index)].path :
                                         n \in DOMAIN pts})]

\* the points find_regions_for_points is asked about: inside one bbox, on an
\* edge or a corner of one, in the overlap of two, outside all; as dicts
\* and as (lat, lon) pairs
QueryPoints ==
    {P10, P50, PFar, Pt(0, 20), Pt(80, 0), Pt(35, 10), Pt(40, 21),
     Tup(15, 5), Tup(20, 80), Tup(10, 90)}

MaxPoints == 2

PointLists == UNION {[1..n -> QueryPoints] : n \in 1..MaxPoints}

PathC == <<"d", "/", "c">>

\* a third region, away from the first two
ThreeIndex ==
    << Entry("a", TRUE, PathA, TRUE, <<0, 0, 40, 20>>),
       Entry("b", TRUE, PathB, TRUE, <<30, 0, 80, 20>>),
       Entry("c", TRUE, PathC, TRUE, <<0, 40, 40, 60>>) >>

\* an index whose second region has no bbox ("bbox": null), and one in
\* which no region has
PartIndex ==
    << Entry("a", TRUE, PathA, TRUE, <<0, 0, 40, 20>>),
       Entry("b", TRUE, PathB, FALSE, <<>>) >>

BoxlessIndex == << Entry("a", TRUE, PathA, FALSE, <<>>) >>

QueryIndexes == {GoodIndex, ThreeIndex, PartIndex, BoxlessIndex}

\* find_regions_for_points called directly (the startup preload does)
FindRegions(points, index) ==
    \E r \in {find_regions_for_points(points, index)} :
       /\ ret' = [kind |-> "regions", raised |-> r.raised, paths |-> r.paths]
       /\ call' = [op |-> "find_regions", points |-> points, index |-> index]
       /\ UNCHANGED <<now, hubVars, cacheVars, workers, loaded_cache, persisted>>

\* the nodes of the region files: node -> <<x, y>>
NodeXY == <<<<10, 10>>, <<30, 10>>, <<50, 10>>, <<70, 10>>>>

Edge(u, v, key, length, speed_kph, maxspeed) ==
    [u |-> u, v |-> v, key |-> key, length |-> length,
     speed_kph |-> speed_kph, maxspeed |-> maxspeed]

\* the graph ox.load_graphml reads from a region file
FileGraph(path) ==
    IF path = PathA
    THEN [nodes |-> {1, 2},
          edges |-> {Edge(1, 2, 0, Num(300), Num(20), Absent),
                     Edge(1, 2, 1, Num(200), Num(40), Absent),
                     Edge(2, 1, 0, Num(200), Absent, Num(60))}]
    ELSE [nodes |-> {2, 3, 4},
          edges |-> {Edge(2, 3, 0, Num(200), Absent, Absent),
                     Edge(3, 4, 0, Num(200), Num(0), NumStr(60)),
                     Edge(2, 4, 0, Num(500), Num(60), Absent),
                     Edge(3, 2, 0, Absent, BadStr, Absent)}]

\* nx.compose_all over the graphs of the files
Compose(files) ==
    [nodes |-> UNION {FileGraph(f).nodes : f \in files},
     edges |-> UNION {FileGraph(f).edges : f \in files}]

\* the composed graph of every set of region files, tabulated
ComposedGraphs == [files \in SUBSET RegionPaths |-> Compose(files)]

MinOf(S) == CHOOSE x \in S : \A y \in S : x <= y

\* float(w) if it converts, else 1.0
WeightOf(e) == IF FloatRaises(e.length) THEN 1 ELSE e.length.v

\* _multigraph_to_simple_digraph_min: one edge per ordered node pair, its
\* weight the least over the parallel edges
_multigraph_to_simple_digraph_min(G) ==
    [nodes |-> G.nodes,
     weight |-> [pair \in {<<e.u, e.v>> : e \in G.edges} |->
                    MinOf({WeightOf(e) : e \in {x \in G.edges : <<x.u, x.v>> = pair}})]]

\* the simplified graph of every composed graph, tabulated
SimpleGraphs ==
    [files \in SUBSET RegionPaths |-> _multigraph_to_simple_digraph_min(ComposedGraphs[files])]

\* the "length" attributes of the multigraphs that are simplified: floats,
\* a numeric string, a missing attribute, text, None
SimplifyLengths == {Num(200), Num(300), NumStr(150), Absent, BadStr, Null}

\* multigraphs on two nodes with two parallel edges 1 -> 2 and an edge back
SimplifyGraphs ==
    {[nodes |-> {1, 2},
      edges |-> {Edge(1, 2, 0, l0, Absent, Absent),
                 Edge(1, 2, 1, l1, Absent, Absent),
                 Edge(2, 1, 0, l2, Absent, Absent)}] :
        l0 \in SimplifyLengths, l1 \in SimplifyLengths, l2 \in SimplifyLengths}

\* G_simple = _multigraph_to_simple_digraph_min(G_proj, weight_key='length')
simplify(G) ==
    /\ call' = [op |-> "simplify", graph |-> G]
    /\ ret' = [kind |-> "simple", graph |-> _multigraph_to_simple_digraph_min(G)]
    /\ UNCHANGED <<now, hubVars, cacheVars, workers, loaded_cache, persisted>>

EmptyAttr == Edge(0, 0, 0, Absent, Absent, Absent)

\* _edge_first_data: among the parallel edges u -> v, the first of least
\* numeric length; the first edge when none has one; {} when there is none
_edge_first_data(G, u, v) ==
    LET eds == {e \in G.edges : e.u = u /\ e.v = v}
        numeric == {e \in eds : ~FloatRaises(e.length)}
    IN  IF eds = {} THEN EmptyAttr
        ELSE IF numeric = {}
        THEN CHOOSE e \in eds : \A x \in eds : e.key <= x.key
        ELSE CHOOSE e \in numeric :
                /\ \A x \in numeric : e.length.v <= x.length.v
                /\ \A x \in numeric : x.length.v = e.length.v => e.key <= x.key

\* _parse_maxspeed(ms): the number of the tag, or None; the tags of the
\* world carry no unit
_parse_maxspeed(ms) ==
    IF ms.k \in {"num", "numstr"} THEN Num(ms.v) ELSE Null

\* truth value of an attribute
Truthy(x) == x.k \in {"numstr", "badstr", "obj"} \/ (x.k = "num" /\ x.v # 0)

\* the speed used for an edge: speed_kph or the maxspeed tag, 40 when it is
\* absent, not a number or not positive
SpeedOf(attr) ==
    LET sp == IF Truthy(attr.speed_kph) THEN attr.speed_kph
              ELSE _parse_maxspeed(attr.maxspeed)
    IN  IF FloatRaises(sp) THEN 40
        ELSE IF sp.v <= 0 THEN 40 ELSE sp.v

\* (ln / 1000.0) / sp * 60.0 minutes, held in 1/2000 minute: exact for the
\* speeds of the world, which divide 120
RECURSIVE EtaOf(_, _)
EtaOf(G, nodes) ==
    IF Len(nodes) < 2 THEN 0
    ELSE LET attr == _edge_first_data(G, nodes[1], nodes[2])
             got == DictGet(attr.length, Num(0))
             ln == IF FloatRaises(got) THEN 0 ELSE got.v
         IN (IF ln > 0 THEN (ln * 120) \div SpeedOf(attr) ELSE 0)
            + EtaOf(G, Tail(nodes))

\* the primary path whose ETA is followed while an edge grows
EtaPath == <<1, 2, 3>>

EtaLengths == {100, 200, 300, 400}

EtaSpeeds == {Num(20), Num(60), Absent}

\* projected graphs with two parallel edges on the first hop of the path
EtaGraphs ==
    {[nodes |-> {1, 2, 3},
      edges |-> {Edge(1, 2, 0, Num(l0), s0, Absent),
                 Edge(1, 2, 1, Num(l1), s1, Absent),
                 Edge(2, 3, 0, Num(200), Num(40), Absent)}] :
        l0 \in EtaLengths, l1 \in EtaLengths, s0 \in EtaSpeeds, s1 \in EtaSpeeds}

\* the ETA loop of get_route_on_roads run on G and on G with the length of
\* edge e raised to ln
eta_after_lengthening(G, e, ln) ==
    /\ e \in G.edges
    /\ ln > e.length.v
    /\ LET G2 == [G EXCEPT !.edges = (G.edges \ {e}) \cup {[e EXCEPT !.length = Num(ln)]}]
       IN  /\ call' = [op |-> "eta", graph |-> G, edge |-> e, length |-> ln]
           /\ ret' = [kind |-> "eta", before |-> EtaOf(G, EtaPath),
                      after |-> EtaOf(G2, EtaPath)]
    /\ UNCHANGED <<now, hubVars, cacheVars, workers, loaded_cache, persisted>>

\* the attributes of the first edge of the path whose ETA is computed:
\* lengths (a float, zero, text, none), speed_kph (floats, zero, a negative
\* number, a numeric string, text, none) and maxspeed tags (a number, a
\* numeric string, text, none)
RuleLengths == {Num(5000), Num(2000), Num(200), Num(0), BadStr, Absent}

RuleSpeeds == {Num(50), Num(0), Num(-30), NumStr(30), BadStr, Absent}

RuleTags == {Num(30), NumStr(60), BadStr, Absent}

\* the second edge of the path: 3000 m at 50 km/h, or 200 m tagged "60"
RuleSecondEdges ==
    {Edge(2, 3, 0, Num(3000), Num(50), Absent), Edge(2, 3, 0, Num(200), Absent, NumStr(60))}

\* projected graphs in which the path 1, 2, 3 is the only connection
RuleGraphs ==
    {[nodes |-> {1, 2, 3}, edges |-> {Edge(1, 2, 0, ln, sp, ms), e2}] :
        ln \in RuleLengths, sp \in RuleSpeeds, ms \in RuleTags, e2 \in RuleSecondEdges}

\* the ETA loop of get_route_on_roads run along the primary path of G
eta_of_path(G) ==
    /\ call' = [op |-> "eta_of_path", graph |-> G]
    /\ ret' = [kind |-> "eta", eta_min |-> EtaOf(G, EtaPath)]
    /\ UNCHANGED <<now, hubVars, cacheVars, workers, loaded_cache, persisted>>

\* ox.distance.nearest_nodes: the first node at the least distance
nearest_nodes(G, X, Y) ==
    LET d(n) == (NodeXY[n][1] - X) * (NodeXY[n][1] - X)
                + (NodeXY[n][2] - Y) * (NodeXY[n][2] - Y)
    IN CHOOSE n \in G.nodes :
          /\ \A m \in G.nodes : d(n) <= d(m)
          /\ \A m \in G.nodes : d(m) = d(n) => n <= m

\* the loopless paths to t that extend the loopless path p
RECURSIVE PathsFrom(_, _, _)
PathsFrom(Gs, p, t) ==
    IF p[Len(p)] = t THEN {p}
    ELSE UNION {PathsFrom(Gs, Append(p, v), t) :
                   v \in {n \in Gs.nodes :
                             /\ <<p[Len(p)], n>> \in DOMAIN Gs.weight
                             /\ \A i \in DOMAIN p : p[i] # n}}

\* the loopless paths from s to t in the simplified graph
SimplePaths(Gs, s, t) == PathsFrom(Gs, <<s>>, t)

RECURSIVE PathWeight(_, _)
PathWeight(Gs, p) ==
    IF Len(p) < 2 THEN 0
    ELSE Gs.weight[<<p[1], p[2]>>] + PathWeight(Gs, Tail(p))

\* mutant: the paths come by increasing number of hops
RECURSIVE FirstShortestByHops(_, _, _)
FirstShortestByHops(Gs, paths, k) ==
    IF k = 0 \/ paths = {} THEN <<>>
    ELSE LET best == CHOOSE p \in paths : \A q \in paths : Len(p) <= Len(q)
         IN <<best>> \o FirstShortestByHops(Gs, paths \ {best}, k - 1)

\* mutant: the loop breaks one path late (len(paths) > k)
RECURSIVE FirstShortestLate(_, _, _)
FirstShortestLate(Gs, paths, k) ==
    IF k = -1 \/ paths = {} THEN <<>>
    ELSE LET best == CHOOSE p \in paths :
                        \A q \in paths : PathWeight(Gs, p) <= PathWeight(Gs, q)
         IN <<best>> \o FirstShortestLate(Gs, paths \ {best}, k - 1)

\* the first k paths nx.shortest_simple_paths yields: by increasing weight
RECURSIVE FirstShortest(_, _, _)
FirstShortest(Gs, paths, k) ==
    IF k = 0 \/ paths = {} THEN <<>>
    ELSE LET best == CHOOSE p \in paths :
                        \A q \in paths : PathWeight(Gs, p) <= PathWeight(Gs, q)
         IN <<best>> \o FirstShortest(Gs, paths \ {best}, k - 1)

\* nodes_to_lonlat
nodes_to_lonlat(nodes) == [i \in DOMAIN nodes |-> NodeXY[nodes[i]]]

\* the 2-point straight line with no ETA
StraightLine(pickup, dropoff) ==
    [kind |-> "route",
     route_coords |-> <<<<pickup.lng, pickup.lat>>, <<dropoff.lng, dropoff.lat>>>>,
     eta_min |-> Null,
     alt_routes |-> <<>>]

\* what a routing call meets besides the faults of a load: nearest_nodes
\* raising
RouteFaults == LoadFaults \cup {"nearest"}

\* the routing of get_route_on_roads on a loaded triple (the try block)
RouteOnTriple(val, pickup, dropoff, num_alternatives, fault) ==
    LET G_unproj == ComposedGraphs[val.unproj]
        G_proj == G_unproj          \* the projection keeps nodes and edges
        G_simple == SimpleGraphs[val.unproj]
        orig_node == nearest_nodes(G_unproj, pickup.lng, pickup.lat)
        dest_node == nearest_nodes(G_unproj, dropoff.lng, dropoff.lat)
        k == IF num_alternatives > 1 THEN num_alternatives ELSE 1
        all == SimplePaths(G_simple, orig_node, dest_node)
        paths == FirstShortest(G_simple, all, k)
    IN  IF fault = "nearest"
        THEN StraightLine(pickup, dropoff)      \* except Exception
        ELSE IF orig_node \notin G_proj.nodes \/ dest_node \notin G_proj.nodes
        THEN StraightLine(pickup, dropoff)
        ELSE IF all = {}
        THEN StraightLine(pickup, dropoff)      \* NetworkXNoPath, caught
        ELSE [kind |-> "route",
              route_coords |-> nodes_to_lonlat(paths[1]),
              eta_min |-> Num(EtaOf(G_proj, paths[1])),
              alt_routes |-> [i \in 1..(Len(paths) - 1) |-> nodes_to_lonlat(paths[i + 1])]]

\* find_regions_for_points([pickup, dropoff], index=idx), tabulated for the
\* points and the indexes of the world
SelectedRegions ==
    [x \in Points \X Points \X RegionIndexes |->
        find_regions_for_points(<<x[1], x[2]>>, x[3])]

\* get_route_on_roads(pickup, dropoff, num_alternatives) at time t over the
\* region index it reads: the graph cache and the disk after it, and the
\* result (or the exception that left it)
get_route_on_roads(cache, disk, pickup, dropoff, num_alternatives, index, t, fault, bad) ==
    LET same(out) == [cache |-> cache, disk |-> disk, out |-> out]
        selected == SelectedRegions[<<pickup, dropoff, index>>]
        loaded == load_composed_subgraph_for_paths(cache, disk, selected.paths,
                                                   TRUE, t, fault, bad)
    IN  IF Falsy(pickup) \/ Falsy(dropoff)
        THEN same(Raised(IF pickup = NonePoint THEN "TypeError"
                         ELSE IF pickup = EmptyDict THEN "KeyError"
                         ELSE IF dropoff = NonePoint THEN "TypeError"
                         ELSE "KeyError"))
        ELSE IF selected.raised
        THEN same(Raised("KeyError"))
        ELSE IF selected.paths = <<>>
        THEN same(StraightLine(pickup, dropoff))
        ELSE IF loaded.out.kind = "raised"
        THEN same(loaded.out)
        ELSE IF loaded.out.val.unproj = {} \/ ~loaded.out.val.proj \/ ~loaded.out.val.simple
        THEN [cache |-> loaded.cache, disk |-> loaded.disk,
              out |-> StraightLine(pickup, dropoff)]
        ELSE [cache |-> loaded.cache, disk |-> loaded.disk,
              out |-> RouteOnTriple(loaded.out.val, pickup, dropoff,
                                    num_alternatives, fault)]

----------------------------------------------------------------------------
(* routing_service.py: the route response cache and the /route handler.    *)
(* Both dicts are kept in insertion order.                                 *)

ROUTE_CACHE_TTL == 3600

\* the capacity of the response cache (2000 in the source), scaled down to
\* the least capacity whose tenth is more than one entry
ROUTE_CACHE_MAX == 20

\* round(x, COORD_ROUND_DECIMALS) of a coordinate held in units of 1e-8:
\* the nearest multiple of 1e-7 (no coordinate of the world lies halfway)
Round7(x) == ((x + 5) \div 10) * 10

\* mutant: the key is made of the raw coordinates
_make_cache_key_raw(pickup_lat, pickup_lng, drop_lat, drop_lng, alternatives) ==
    <<pickup_lat, pickup_lng, drop_lat, drop_lng, alternatives>>

\* _make_cache_key: the four rounded coordinates and the count, "|"-joined
_make_cache_key(pickup_lat, pickup_lng, drop_lat, drop_lng, alternatives) ==
    <<Round7(pickup_lat), Round7(pickup_lng), Round7(drop_lat), Round7(drop_lng),
      alternatives>>

\* d[key] = entry: a present key keeps its place, a new one goes last
DictSet(d, entry) ==
    IF CacheIndex(d, entry.key) # 0
    THEN [d EXCEPT ![CacheIndex(d, entry.key)] = entry]
    ELSE Append(d, entry)

\* d.pop(key, None)
DictPop(d, key) ==
    IF CacheIndex(d, key) # 0 THEN RemoveAt(d, CacheIndex(d, key)) ELSE d

\* mutant: a hit also restamps the stored entry
_cache_get_restamp(rc, ao, key, t) ==
    IF CacheIndex(rc, key) = 0
    THEN [rc |-> rc, ao |-> ao, hit |-> FALSE, val |-> NoReturn]
    ELSE IF t - rc[CacheIndex(rc, key)].ts > ROUTE_CACHE_TTL
    THEN [rc |-> DictPop(rc, key), ao |-> DictPop(ao, key),
          hit |-> FALSE, val |-> NoReturn]
    ELSE [rc |-> [rc EXCEPT ![CacheIndex(rc, key)].ts = t],
          ao |-> DictSet(ao, [key |-> key, ts |-> t]),
          hit |-> TRUE, val |-> rc[CacheIndex(rc, key)].val]

\* _cache_get(key) at time t: both dicts after it, and the value or a miss
_cache_get(rc, ao, key, t) ==
    IF CacheIndex(rc, key) = 0
    THEN [rc |-> rc, ao |-> ao, hit |-> FALSE, val |-> NoReturn]
    ELSE IF t - rc[CacheIndex(rc, key)].ts > ROUTE_CACHE_TTL
    THEN [rc |-> DictPop(rc, key), ao |-> DictPop(ao, key),
          hit |-> FALSE, val |-> NoReturn]
    ELSE [rc |-> rc, ao |-> DictSet(ao, [key |-> key, ts |-> t]),
          hit |-> TRUE, val |-> rc[CacheIndex(rc, key)].val]

\* sorted(access_order.items(), key=time)[:n]: the keys of the n entries
\* accessed longest ago, ties in dict order
RECURSIVE OldestKeys(_, _)
OldestKeys(ao, n) ==
    IF n = 0 \/ ao = <<>> THEN {}
    ELSE {ao[OldestIndex(ao)].key} \cup OldestKeys(RemoveAt(ao, OldestIndex(ao)), n - 1)

RECURSIVE DictPopAll(_, _)
DictPopAll(d, keys) ==
    IF keys = {} THEN d
    ELSE LET k == CHOOSE x \in keys : TRUE
         IN DictPopAll(DictPop(d, k), keys \ {k})

\* max(1, int(0.1 * ROUTE_CACHE_MAX))
EvictCount == IF ROUTE_CACHE_MAX \div 10 > 1 THEN ROUTE_CACHE_MAX \div 10 ELSE 1

\* mutant: the entries stored longest ago are evicted, whenever they were
\* last looked up
_cache_set_by_age(rc, ao, key, value, t) ==
    LET oldest == IF CacheIndex(rc, key) = 0 /\ Len(rc) >= ROUTE_CACHE_MAX
                  THEN OldestKeys(rc, EvictCount) ELSE {}
    IN [rc |-> DictSet(DictPopAll(rc, oldest), [key |-> key, ts |-> t, val |-> value]),
        ao |-> DictSet(DictPopAll(ao, oldest), [key |-> key, ts |-> t]),
        evicted |-> oldest]

\* _cache_set(key, value) at time t: both dicts after it, and the keys it
\* evicted
_cache_set(rc, ao, key, value, t) ==
    LET oldest == IF CacheIndex(rc, key) = 0 /\ Len(rc) >= ROUTE_CACHE_MAX
                  THEN OldestKeys(ao, EvictCount) ELSE {}
    IN [rc |-> DictSet(DictPopAll(rc, oldest), [key |-> key, ts |-> t, val |-> value]),
        ao |-> DictSet(DictPopAll(ao, oldest), [key |-> key, ts |-> t]),
        evicted |-> oldest]

\* the keys of the requests that differ in the pickup latitude only
MaxKeys == 22

LruKey(i) == _make_cache_key(i * 10, 0, 0, 0, 1)

\* the keys that are looked up and stored again while they are cached
MaxTouched == 2

\* the first key not used yet: the newest key is the last of the dict and is
\* never the one evicted
FreshKey ==
    IF route_cache = <<>> THEN 1
    ELSE 1 + (route_cache[Len(route_cache)].key[1] \div 10)

\* route() looks a key up
cache_get(i) ==
    /\ \E got \in {_cache_get(route_cache, route_cache_access_order, LruKey(i), now)} :
          /\ route_cache' = got.rc
          /\ route_cache_access_order' = got.ao
    /\ UNCHANGED <<now, hubVars, graphVars, pending, responses, flaskVars>>

\* route() stores the result of a computation: under a new key, or again
\* under one of the first keys while it is cached
cache_set(i) ==
    /\ \/ i = FreshKey
       \/ i <= MaxTouched /\ CacheIndex(route_cache, LruKey(i)) # 0
    /\ \E set \in {_cache_set(route_cache, route_cache_access_order, LruKey(i),
                               StraightLine(P10, P70), now)} :
          /\ route_cache' = set.rc
          /\ route_cache_access_order' = set.ao
    /\ UNCHANGED <<now, hubVars, graphVars, pending, responses, flaskVars>>

KeyOfRequest(q) ==
    _make_cache_key(q.pickup.lat, q.pickup.lng, q.dropoff.lat, q.dropoff.lng,
                    q.alternatives)

\* the response of a request: status 200 with from_cache and the routing
\* result, or status 500
Response(q, t, status, from_cache, result, stored, evicted) ==
    [id |-> q.id, pickup |-> q.pickup, dropoff |-> q.dropoff,
     alternatives |-> q.alternatives, issued |-> q.issued, seen |-> q.seen,
     at |-> t, status |-> status, from_cache |-> from_cache, result |-> result,
     stored |-> stored, evicted |-> evicted]

\* route(), up to its await: a hit answers at once, a miss hands
\* get_route_on_roads to the worker pool
route_start(pickup, dropoff, alternatives) ==
    \E q \in {[id |-> Len(responses) + Len(pending) + 1, pickup |-> pickup,
               dropoff |-> dropoff, alternatives |-> alternatives, issued |-> now,
               seen |-> Len(responses)]} :
    \E got \in {_cache_get(route_cache, route_cache_access_order, KeyOfRequest(q), now)} :
       /\ Len(responses) + Len(pending) < MaxRequests
       /\ route_cache' = got.rc
       /\ route_cache_access_order' = got.ao
       /\ IF got.hit
          THEN /\ responses' = Append(responses, Response(q, now, 200, TRUE, got.val, FALSE, {}))
               /\ UNCHANGED pending
          ELSE /\ pending' = Append(pending, q)
               /\ UNCHANGED responses
       /\ UNCHANGED <<now, hubVars, graphVars, flaskVars>>

\* route(), from its await on: the worker pool has run get_route_on_roads;
\* the result is stored and returned, an exception becomes status 500
route_finish(i, index, fault, bad) ==
    /\ i \in DOMAIN pending
    /\ \E q \in {pending[i]} :
       \E r \in {get_route_on_roads(loaded_cache, persisted, q.pickup, q.dropoff,
                                    q.alternatives, index, now, fault, bad)} :
       \E set \in {_cache_set(route_cache, route_cache_access_order, KeyOfRequest(q),
                               r.out, now)} :
          /\ loaded_cache' = r.cache
          /\ persisted' = r.disk
          /\ ret' = r.out
          /\ call' = [op |-> "route", pickup |-> q.pickup, dropoff |-> q.dropoff,
                      num_alternatives |-> q.alternatives]
          /\ IF r.out.kind = "raised"
             THEN /\ responses' = Append(responses,
                                         Response(q, now, 500, FALSE, r.out, FALSE, {}))
                  /\ UNCHANGED <<route_cache, route_cache_access_order>>
             ELSE /\ responses' = Append(responses,
                                         Response(q, now, 200, FALSE, r.out, TRUE, set.evicted))
                  /\ route_cache' = set.rc
                  /\ route_cache_access_order' = set.ao
    /\ pending' = RemoveAt(pending, i)
    /\ UNCHANGED <<now, hubVars, workers, flaskVars>>

\* time passes for the response cache: a second, or one TTL
RouteTick ==
    /\ \/ /\ now % ROUTE_CACHE_TTL < MaxRouteTicks
          /\ now' = now + 1
       \/ /\ now \div ROUTE_CACHE_TTL < MaxRouteJumps
          /\ now' = now + ROUTE_CACHE_TTL
    /\ UNCHANGED <<hubVars, graphVars, cacheVars>>

----------------------------------------------------------------------------
(* driver_routes.py: route_for_delivery, the delivery workflow's caller of  *)
(* /route, with its own small response cache.                              *)

\* requests.get(routing_url, params=params, timeout=15)
REQUEST_TIMEOUT == 15

FLASK_ROUTE_CACHE_TTL == 300

FLASK_ROUTE_CACHE_MAX == 500

MaxDeliveries == 2

MaxDeliveryTicks == 2

\* round(x, 5) of a coordinate held in units of 1e-8
Round5(x) == ((x + 500) \div 1000) * 1000

\* the key of a delivery: its four coordinates rounded to 5 places, and "2"
FlaskKey(pickup, dropoff) ==
    <<Round5(pickup.lat), Round5(pickup.lng), Round5(dropoff.lat), Round5(dropoff.lng), 2>>

\* flask_cache_get(key) at time t: the cache after it, and the value or a miss
flask_cache_get(fc, key, t) ==
    IF CacheIndex(fc, key) = 0
    THEN [fc |-> fc, hit |-> FALSE, val |-> NoReturn]
    ELSE IF t - fc[CacheIndex(fc, key)].ts > FLASK_ROUTE_CACHE_TTL
    THEN [fc |-> DictPop(fc, key), hit |-> FALSE, val |-> NoReturn]
    ELSE [fc |-> [fc EXCEPT ![CacheIndex(fc, key)].ts = t],
          hit |-> TRUE, val |-> fc[CacheIndex(fc, key)].val]

\* flask_cache_set(key, value) at time t
flask_cache_set(fc, key, value, t) ==
    LET n == IF FLASK_ROUTE_CACHE_MAX \div 10 > 1 THEN FLASK_ROUTE_CACHE_MAX \div 10 ELSE 1
        oldest == IF CacheIndex(fc, key) = 0 /\ Len(fc) >= FLASK_ROUTE_CACHE_MAX
                  THEN OldestKeys(fc, n) ELSE {}
    IN DictSet(DictPopAll(fc, oldest), [key |-> key, ts |-> t, val |-> value])

\* a request to route_for_delivery and how it ended
FlaskCall(pickup, dropoff, started, st, status, error, core) ==
    [pickup |-> pickup, dropoff |-> dropoff, started |-> started, ended |-> started,
     st |-> st, status |-> status, error |-> error, core |-> core]

\* the deliveries: with all four coordinates, and one with a zero coordinate
Deliveries == {<<P10, P70>>, <<P50, P70>>, <<Pt(0, 20), P70>>}

\* route_for_delivery, up to the answer of requests.get: a delivery without
\* coordinates is refused, a cached route is returned, an unreachable
\* service is a 502; otherwise /route runs up to its await
route_for_delivery(pickup, dropoff, reachable) ==
    /\ Len(flask_calls) < MaxDeliveries
    /\ Len(responses) + Len(pending) < MaxRequests
    /\ now < MaxDeliveryTicks * REQUEST_TIMEOUT
    /\ \E fk \in {FlaskKey(pickup, dropoff)} :
       \E cached \in {flask_cache_get(flask_cache, fk, now)} :
       \E q \in {[id |-> Len(responses) + Len(pending) + 1, pickup |-> pickup,
                  dropoff |-> dropoff, alternatives |-> 2, issued |-> now,
                  seen |-> Len(responses)]} :
       \E got \in {_cache_get(route_cache, route_cache_access_order, KeyOfRequest(q), now)} :
          IF pickup.lat = 0 \/ pickup.lng = 0 \/ dropoff.lat = 0 \/ dropoff.lng = 0
          THEN /\ flask_calls' = Append(flask_calls,
                      FlaskCall(pickup, dropoff, now, "done", 400,
                                "Delivery missing coordinates", 0))
               /\ UNCHANGED <<flask_cache, route_cache, route_cache_access_order,
                              pending, responses>>
          ELSE IF cached.hit
          THEN /\ flask_calls' = Append(flask_calls,
                      FlaskCall(pickup, dropoff, now, "done", 200, "", 0))
               /\ flask_cache' = cached.fc
               /\ UNCHANGED <<route_cache, route_cache_access_order, pending, responses>>
          ELSE IF ~reachable
          THEN /\ flask_calls' = Append(flask_calls,
                      FlaskCall(pickup, dropoff, now, "done", 502,
                                "Routing request failed", 0))
               /\ flask_cache' = cached.fc
               /\ UNCHANGED <<route_cache, route_cache_access_order, pending, responses>>
          ELSE /\ route_cache' = got.rc
               /\ route_cache_access_order' = got.ao
               /\ IF got.hit
                  THEN /\ responses' = Append(responses,
                              Response(q, now, 200, TRUE, got.val, FALSE, {}))
                       /\ flask_calls' = Append(flask_calls,
                              FlaskCall(pickup, dropoff, now, "done", 200, "", q.id))
                       /\ flask_cache' = flask_cache_set(cached.fc, fk, got.val, now)
                       /\ UNCHANGED pending
                  ELSE /\ pending' = Append(pending, q)
                       /\ flask_calls' = Append(flask_calls,
                              FlaskCall(pickup, dropoff, now, "waiting", 0, "", q.id))
                       /\ flask_cache' = cached.fc
                       /\ UNCHANGED responses
    /\ UNCHANGED <<now, hubVars, graphVars>>

\* the answer of /route to the request of call n, if it came within the
\* timeout
TimelyAnswer(n) ==
    {j \in DOMAIN responses :
        /\ responses[j].id = flask_calls[n].core
        /\ responses[j].at - flask_calls[n].started < REQUEST_TIMEOUT}

\* route_for_delivery, from the answer on: a 200 is cached and returned,
\* raise_for_status turns a 500 into the generic 502
route_for_delivery_answer(n) ==
    /\ n \in DOMAIN flask_calls
    /\ flask_calls[n].st = "waiting"
    /\ TimelyAnswer(n) # {}
    /\ \E j \in TimelyAnswer(n) :
          IF responses[j].status = 200
          THEN /\ flask_calls' = [flask_calls EXCEPT ![n].st = "done", ![n].status = 200,
                                                     ![n].ended = responses[j].at]
               /\ flask_cache' = flask_cache_set(flask_cache,
                                     FlaskKey(flask_calls[n].pickup, flask_calls[n].dropoff),
                                     responses[j].result, now)
          ELSE /\ flask_calls' = [flask_calls EXCEPT ![n].st = "done", ![n].status = 502,
                                                     ![n].error = "Routing request failed",
                                                     ![n].ended = responses[j].at]
               /\ UNCHANGED flask_cache
    /\ UNCHANGED <<now, hubVars, graphVars, route_cache, route_cache_access_order,
                   pending, responses>>

\* except requests.Timeout: no answer within the timeout
route_for_delivery_timeout(n) ==
    /\ n \in DOMAIN flask_calls
    /\ flask_calls[n].st = "waiting"
    /\ TimelyAnswer(n) = {}
    /\ now - flask_calls[n].started >= REQUEST_TIMEOUT
    /\ flask_calls' = [flask_calls EXCEPT ![n].st = "done", ![n].status = 504,
                                          ![n].error = "Routing service timed out",
                                          ![n].ended = flask_calls[n].started + REQUEST_TIMEOUT]
    /\ UNCHANGED <<now, hubVars, graphVars, route_cache, route_cache_access_order,
                   pending, responses, flask_cache>>

\* time passes for the waiting callers: one timeout at a time
DeliveryTick ==
    /\ now < MaxDeliveryTicks * REQUEST_TIMEOUT
    /\ now' = now + REQUEST_TIMEOUT
    /\ UNCHANGED <<hubVars, graphVars, cacheVars>>

\* get_route_on_roads called directly
Route(pickup, dropoff, num_alternatives, index, fault, bad) ==
    \E r \in {get_route_on_roads(loaded_cache, persisted, pickup, dropoff,
                                 num_alternatives, index, now, fault, bad)} :
       /\ loaded_cache' = r.cache
       /\ persisted' = r.disk
       /\ ret' = r.out
       /\ call' = [op |-> "route", pickup |-> pickup, dropoff |-> dropoff,
                   num_alternatives |-> num_alternatives]
       /\ UNCHANGED <<now, hubVars, cacheVars, workers>>

\* the routing calls of SpecLoads: within the first region, and across both
RouteCallEndpoints == {<<P10, P12>>, <<P10, P70>>}

\* the troubles of a recorded routing call: none, no loadable file (with a
\* readable or an unreadable persisted entry), a failing projection
RouteCallTroubles ==
    {<<"none", {}>>, <<"none", RegionPaths>>, <<"read_persisted", RegionPaths>>,
     <<"project", {}>>}

\* get_route_on_roads(pickup, dropoff) over the good index, the call and
\* its trouble kept in call
RouteCall(pickup, dropoff, fault, bad) ==
    \E r \in {get_route_on_roads(loaded_cache, persisted, pickup, dropoff,
                                 1, GoodIndex, now, fault, bad)} :
       /\ loaded_cache' = r.cache
       /\ persisted' = r.disk
       /\ ret' = r.out
       /\ call' = [op |-> "route", pickup |-> pickup, dropoff |-> dropoff,
                   num_alternatives |-> 1, fault |-> fault, bad |-> bad]
       /\ UNCHANGED <<now, hubVars, cacheVars, workers>>

----------------------------------------------------------------------------

Init ==
    /\ now = 0
    /\ drivers = [d \in DriverIds |-> None]
    /\ monitors = {}
    /\ last_known = [d \in DriverIds |-> NoRecord]
    /\ dconn = [ws \in DriverSockets |-> [st |-> "new", id |-> None]]
    /\ mconn = [ws \in MonitorSockets |-> "new"]
    /\ tasks = <<>>
    /\ seq = 0
    /\ last_known_locations = [d \in DriverIds |-> NoRecord]
    /\ log = <<>>
    /\ delivered = [ws \in MonitorSockets |-> <<>>]
    /\ snapshots = [n \in 1..MaxUpdates |-> {}]
    /\ hints = [ws \in MonitorSockets |-> None]
    /\ locations_call = IdleQuery
    /\ loaded_cache = <<>>
    /\ persisted = [k \in CacheKeys |-> NoFile]
    /\ ret = NoReturn
    /\ call = NoCall
    /\ workers = [th \in Threads |-> IdleWorker]
    /\ route_cache = <<>>
    /\ route_cache_access_order = <<>>
    /\ pending = <<>>
    /\ responses = <<>>
    /\ flask_cache = <<>>
    /\ flask_calls = <<>>

\* SpecHub: registration, ingestion and fan-out with one observer, the
\* clock standing still
NextHub ==
    \/ \E ws \in DriverSockets, d \in DriverIds : ws_driver_connect(ws, d)
    \/ \E ws \in DriverSockets, msg \in HubMsgs : ws_driver_ignore(ws, msg)
    \/ \E ws \in DriverSockets, msg \in HubMsgs : ws_driver_error(ws, msg)
    \/ \E ws \in DriverSockets, msg \in HubMsgs : ws_driver_location(ws, msg)
    \/ \E ws \in DriverSockets : ws_driver_disconnect(ws)
    \/ \E d \in DriverIds, msg \in HubMsgs : post_location(d, msg)
    \/ \E d \in DriverIds, msg \in HubMsgs : post_location_rejected(d, msg)
    \/ \E d \in DriverIds, msg \in HubMsgs : flask_post_location_rejected(d, msg)
    \/ \E ws \in HubMonitors : ws_monitor_connect(ws)
    \/ \E ws \in HubMonitors : monitor_drop(ws)
    \/ \E ws \in HubMonitors : ws_monitor_disconnect(ws)
    \/ broadcast_snapshot
    \/ \E i \in 1..MaxUpdates, ws \in HubMonitors : safe_send_ok(i, ws)
    \/ \E i \in 1..MaxUpdates, ws \in HubMonitors : safe_send_fail(i, ws)

SpecHub == Init /\ [][NextHub]_vars

\* SpecRetention: ingestion over one websocket and over HTTP, the sweep and
\* the clock, no observer connected
NextRetention ==
    \/ \E ws \in RetentionSockets, d \in DriverIds : ws_driver_connect(ws, d)
    \/ \E ws \in RetentionSockets, msg \in ValidMsgs : ws_driver_location(ws, msg)
    \/ \E ws \in RetentionSockets : ws_driver_disconnect(ws)
    \/ \E d \in DriverIds, msg \in ValidMsgs : post_location(d, msg)
    \/ \E d \in DriverIds, msg \in ValidMsgs : flask_post_location(d, msg)
    \/ broadcast_snapshot
    \/ periodic_cleanup
    \/ HubTick

SpecRetention == Init /\ [][NextRetention]_vars

\* SpecFanout: updates of one driver fanned out to several observers
NextFanout ==
    \/ \E msg \in FanoutMsgs : post_location("D1", msg)
    \/ \E ws \in MonitorSockets : ws_monitor_connect(ws)
    \/ \E ws \in MonitorSockets : monitor_drop(ws)
    \/ \E ws \in MonitorSockets : ws_monitor_disconnect(ws)
    \/ broadcast_snapshot
    \/ \E i \in 1..MaxUpdates, ws \in MonitorSockets : safe_send_ok(i, ws)
    \/ \E i \in 1..MaxUpdates, ws \in MonitorSockets : safe_send_fail(i, ws)

SpecFanout == Init /\ [][NextFanout]_vars

\* SpecDelivery: updates of both drivers, observers that send subscribe
\* hints.  The event loop runs every task that is ready, and a send to an
\* open channel completes: the start of a broadcast and each observer's
\* sends are weakly fair.
NextDelivery ==
    \/ \E d \in DriverIds, msg \in FanoutMsgs : post_location(d, msg)
    \/ \E ws \in MonitorSockets : ws_monitor_connect(ws)
    \/ \E ws \in MonitorSockets, d \in DriverIds : ws_monitor_subscribe(ws, d)
    \/ \E ws \in MonitorSockets : monitor_drop(ws)
    \/ \E ws \in MonitorSockets : ws_monitor_disconnect(ws)
    \/ broadcast_snapshot
    \/ \E i \in 1..MaxUpdates, ws \in MonitorSockets : safe_send_ok(i, ws)
    \/ \E i \in 1..MaxUpdates, ws \in MonitorSockets : safe_send_fail(i, ws)

SpecDelivery ==
    /\ Init
    /\ [][NextDelivery]_vars
    /\ WF_vars(broadcast_snapshot)
    /\ \A ws \in MonitorSockets :
          WF_vars(\E i \in 1..MaxUpdates : safe_send_ok(i, ws))

----------------------------------------------------------------------------
(* Properties of the live-location hub.                                    *)

Range(s) == {s[i] : i \in DOMAIN s}

TaskIds == {tasks[i].id : i \in DOMAIN tasks}

UpdatesOf(svc, d) == {i \in DOMAIN log : log[i].svc = svc /\ log[i].driver = d}

LastOf(svc, d) == log[CHOOSE i \in UpdatesOf(svc, d) : \A j \in UpdatesOf(svc, d) : j <= i]

Carries(rec, u) ==
    /\ rec.lat = u.lat /\ rec.lng = u.lng /\ rec.ts = u.ts /\ rec.meta = u.meta
    /\ rec.received_at = u.at

\* C2: get_last_known(D) is the update processed last for D, whatever the ts
\* of earlier updates; the record is absent only before D's first update or
\* once the sweep found it older than the retention window.
C2_LastWriteWins ==
    \A d \in DriverIds :
        /\ IF UpdatesOf("hub", d) = {}
           THEN get_last_known(last_known, d) = NoRecord
           ELSE IF get_last_known(last_known, d) = NoRecord
                THEN LastOf("hub", d).at < now - LOCATION_RETENTION_SECONDS
                ELSE Carries(get_last_known(last_known, d), LastOf("hub", d))
        /\ IF UpdatesOf("flask", d) = {}
           THEN last_known_locations[d] = NoRecord
           ELSE Carries(last_known_locations[d], LastOf("flask", d))

\* two updates of D1, one over the websocket and one over HTTP, the first
\* with the larger client ts; the table holds the second
C2_Witness ==
    /\ Len(log) = 2
    /\ log[1].svc = "hub" /\ log[2].svc = "hub"
    /\ log[1].driver = "D1" /\ log[2].driver = "D1"
    /\ log[1].via # log[2].via
    /\ log[1].ts = Num(5) /\ log[2].ts.k = "num" /\ log[2].ts.v < 5
    /\ get_last_known(last_known, "D1").ts = log[2].ts

\* C3: a failing send removes only its own channel from the observer set and
\* leaves the other sends of the broadcast pending; every connected observer
\* stays registered, and a finished broadcast has reached every observer of
\* its snapshot that is still connected.
C3_FailedSendIsolated ==
    /\ [](/\ \A ws \in MonitorSockets : mconn[ws] = "open" => ws \in monitors
          /\ \A n \in 1..seq :
                n \notin TaskIds =>
                    \A ws \in snapshots[n] :
                        mconn[ws] = "open" => n \in Range(delivered[ws]))
    /\ [][\A i \in 1..MaxUpdates, ws \in MonitorSockets :
            safe_send_fail(i, ws) =>
                /\ monitors' = monitors \ {ws}
                /\ \A other \in tasks[i].todo \ {ws} :
                      \E j \in DOMAIN tasks' :
                          tasks'[j].id = tasks[i].id /\ other \in tasks'[j].todo]_vars

\* both observers were in the snapshot of update 1, the send to M2 failed
\* (M2 is deregistered while its handler has not yet seen the disconnect),
\* and M1 was sent update 1 and the later update 2
C3_Witness ==
    /\ snapshots[1] = {"M1", "M2"}
    /\ mconn["M2"] = "dead" /\ "M2" \notin monitors
    /\ 1 \notin Range(delivered["M2"])
    /\ delivered["M1"] = <<1, 2>>
    /\ tasks = <<>>

\* C8: a sweep leaves exactly the records received within the retention
\* window, each unchanged.
C8_SweepKeepsFresh ==
    [][periodic_cleanup =>
        \A d \in DriverIds :
            last_known'[d] =
                IF /\ last_known[d] # NoRecord
                   /\ now - last_known[d].received_at <= LOCATION_RETENTION_SECONDS
                THEN last_known[d]
                ELSE NoRecord]_vars

\* D1's record, received one second more than the window ago, is gone, and
\* D2's record, received exactly the window ago, survived the sweep
C8_Witness ==
    /\ now = LOCATION_RETENTION_SECONDS + 1
    /\ UpdatesOf("hub", "D1") # {} /\ LastOf("hub", "D1").at = 0
    /\ last_known["D1"] = NoRecord
    /\ last_known["D2"] # NoRecord /\ last_known["D2"].received_at = 1

\* C9: a new channel for D becomes D's registered channel, and a channel
\* that closes or fails deregisters only itself.
C9_CloseDeregistersOnlyItself ==
    [][/\ \A ws \in DriverSockets, d \in DriverIds :
            ws_driver_connect(ws, d) => drivers'[d] = ws
       /\ \A ws \in DriverSockets :
            (dconn[ws].st = "open" /\ dconn'[ws].st = "closed") =>
                /\ \A d \in DriverIds : drivers[d] # ws => drivers'[d] = drivers[d]
                /\ monitors' = monitors]_vars

\* C10: a message whose lat or lng is missing or not numeric changes nothing
\* and leaves the driver channel open.
LatLngInvalid(msg) ==
    \/ msg.lat.k \in {"absent", "null", "badstr"}
    \/ msg.lng.k \in {"absent", "null", "badstr"}

C10_InvalidMessageRejected ==
    [][\A msg \in HubMsgs :
        LatLngInvalid(msg) =>
            /\ \A ws \in DriverSockets :
                (ws_driver_ignore(ws, msg) \/ ws_driver_error(ws, msg)
                    \/ ws_driver_location(ws, msg)) =>
                    /\ last_known' = last_known
                    /\ drivers' = drivers
                    /\ monitors' = monitors
                    /\ tasks' = tasks
                    /\ dconn'[ws].st = "open"
            /\ \A d \in DriverIds :
                (post_location(d, msg) \/ post_location_rejected(d, msg)
                    \/ flask_post_location(d, msg)
                    \/ flask_post_location_rejected(d, msg)) =>
                    /\ last_known' = last_known
                    /\ last_known_locations' = last_known_locations
                    /\ drivers' = drivers
                    /\ monitors' = monitors
                    /\ tasks' = tasks]_vars

\* SpecGraphCache: loads issued one after another
NextGraphCache ==
    \/ \E paths \in LoadInputs, persist \in BOOLEAN, trouble \in LoadTroubles :
          Load(paths, persist, trouble[1], trouble[2])
    \/ GraphTick

SpecGraphCache == Init /\ [][NextGraphCache]_vars

\* SpecLoads: loads with persist=True and routing calls issued one after
\* another, each recorded with its inputs
NextLoads ==
    \/ \E paths \in LoadInputs, trouble \in LoadCallTroubles :
          LoadCall(paths, trouble[1], trouble[2])
    \/ \E c \in RouteCallEndpoints, trouble \in RouteCallTroubles :
          RouteCall(c[1], c[2], trouble[1], trouble[2])
    \/ LoadTick

SpecLoads == Init /\ [][NextLoads]_vars

\* C1: whenever a load has returned, the in-memory graph cache holds at most
\* MAX_LOADED_COMPOSED entries.
C1_CacheWithinCapacity == Len(loaded_cache) <= MAX_LOADED_COMPOSED

\* a third key was loaded into a full cache: two entries are held and the
\* key loaded first is gone
C1_Witness ==
    /\ Len(loaded_cache) = MAX_LOADED_COMPOSED
    /\ persisted[KeyOfPaths[<<PathA>>]] # NoFile
    /\ CacheIndex(loaded_cache, KeyOfPaths[<<PathA>>]) = 0
    /\ CacheIndex(loaded_cache, KeyOfPaths[<<PathB>>]) # 0
    /\ CacheIndex(loaded_cache, KeyOfPaths[<<PathA, PathB>>]) # 0

\* SpecRoute: get_route_on_roads called with any endpoints, over any region
\* index, meeting any fault
\* the calls: every pair of points, a call for two paths, and the pairs
\* with a missing endpoint
RouteCalls ==
    {<<p, d, 1>> : p \in Points, d \in Points}
    \cup {<<P10, P70, 2>>}
    \cup {<<NonePoint, P70, 1>>, <<EmptyDict, NonePoint, 1>>,
          <<P10, NonePoint, 1>>, <<P10, EmptyDict, 1>>}

\* the region index a call reads and the one trouble it meets
RouteSettings ==
    {<<GoodIndex, fault, {}>> : fault \in {"none", "compose", "project", "nearest"}}
    \cup {<<GoodIndex, "none", RegionPaths>>,
          <<EmptyIndex, "none", {}>>, <<NoPathIndex, "none", {}>>}

NextRoute ==
    \E c \in RouteCalls, s \in RouteSettings :
        Route(c[1], c[2], c[3], s[1], s[2], s[3])

SpecRoute == Init /\ [][NextRoute]_vars

\* C5: every return of get_route_on_roads for endpoints with numeric
\* lat/lng has at least two points in route_coords.
C5_AtLeastTwoPoints ==
    (call.op = "route" /\ ~Falsy(call.pickup) /\ ~Falsy(call.dropoff)
        /\ ret.kind = "route")
    => Len(ret.route_coords) >= 2

\* C6: with both endpoints present, no exception of the region selection,
\* the graph load or the routing leaves get_route_on_roads: it returns, and
\* what it returns after a failure is the straight line with null ETA.
C6_NoExceptionPropagates ==
    (call.op = "route" /\ ~Falsy(call.pickup) /\ ~Falsy(call.dropoff))
    => ret.kind = "route"

\* C7: with a missing endpoint (None or empty) get_route_on_roads returns
\* two points, a null eta_min and no alternates, and does not raise.
C7_MissingEndpointFallback ==
    (call.op = "route" /\ (Falsy(call.pickup) \/ Falsy(call.dropoff)))
    => /\ ret.kind = "route"
       /\ Len(ret.route_coords) = 2
       /\ ret.eta_min = Null
       /\ ret.alt_routes = <<>>

\* SpecRouteCache: /route requests over the response cache, identical and
\* different ones, overlapping and one after another
RouteRequests ==
    {<<P10, P70, 1>>, <<P12, P70, 1>>, <<P50, P70, 1>>}

RouteCacheSettings ==
    {<<GoodIndex, "none", {}>>, <<GoodIndex, "none", RegionPaths>>,
     <<GoodIndex, "compose", {}>>}

NextRouteCache ==
    \/ \E c \in RouteRequests : route_start(c[1], c[2], c[3])
    \/ \E i \in 1..MaxRequests, s \in RouteCacheSettings :
          route_finish(i, s[1], s[2], s[3])
    \/ RouteTick

SpecRouteCache == Init /\ [][NextRouteCache]_vars

\* the rounded coordinates and the count of a request
RoundedArgs(r) ==
    <<Round7(r.pickup.lat), Round7(r.pickup.lng), Round7(r.dropoff.lat),
      Round7(r.dropoff.lng), r.alternatives>>

\* C4 as stated: of two answered requests with the same rounded coordinates
\* and count, the second issued within the TTL after the first was issued,
\* both return the same route_coords and the second has from_cache = true.
C4_IdenticalRequests ==
    \A i, j \in DOMAIN responses :
        (/\ responses[i].id < responses[j].id
         /\ responses[i].status = 200 /\ responses[j].status = 200
         /\ RoundedArgs(responses[i]) = RoundedArgs(responses[j])
         /\ responses[j].issued - responses[i].issued <= ROUTE_CACHE_TTL)
        => /\ responses[j].from_cache
           /\ responses[j].result.route_coords = responses[i].result.route_coords

\* the entry the i-th answer stored is untouched up to the issue of the
\* j-th answered request: no later answer stored the key again or evicted it
EntryKept(i, j) ==
    \A m \in (i + 1)..responses[j].seen :
        responses[m].stored =>
            /\ RoundedArgs(responses[m]) # RoundedArgs(responses[i])
            /\ RoundedArgs(responses[i]) \notin responses[m].evicted

\* C4, amended: when the first request was answered from a computation (and
\* so stored its result) before the second was issued, the second is issued
\* within the TTL after the first was issued, and the stored entry was
\* neither overwritten nor evicted in between, then the second returns
\* from_cache = true and the route_coords the first returned.
C4_SequentialRequests ==
    \A i, j \in DOMAIN responses :
        (/\ i <= responses[j].seen
         /\ responses[i].stored
         /\ RoundedArgs(responses[i]) = RoundedArgs(responses[j])
         /\ responses[j].issued - responses[i].issued <= ROUTE_CACHE_TTL
         /\ EntryKept(i, j))
        => /\ responses[j].status = 200
           /\ responses[j].from_cache
           /\ responses[j].result.route_coords = responses[i].result.route_coords

\* a request with other raw coordinates but the same rounded ones was
\* answered from the entry an earlier request had stored
C4_Witness ==
    \E i, j \in DOMAIN responses :
        /\ i <= responses[j].seen
        /\ responses[i].stored
        /\ RoundedArgs(responses[i]) = RoundedArgs(responses[j])
        /\ responses[i].pickup # responses[j].pickup
        /\ responses[j].issued - responses[i].issued <= ROUTE_CACHE_TTL
        /\ responses[j].issued > responses[i].at
        /\ EntryKept(i, j)
        /\ responses[j].from_cache

\* SpecWorkers: calls of load_composed_subgraph_for_paths running on two
\* threads of the worker pool
NextWorkers ==
    \/ \E th \in Threads, paths \in WorkerInputs : worker_call(th, paths)
    \/ \E th \in Threads : worker_check(th)
    \/ \E th \in Threads : worker_hit_read(th)
    \/ \E th \in Threads : worker_hit_store(th)
    \/ \E th \in Threads : worker_hit_return(th)
    \/ \E th \in Threads, trouble \in WorkerTroubles :
          worker_build(th, trouble[1], trouble[2])
    \/ \E th \in Threads : worker_insert(th)
    \/ \E th \in Threads : worker_evict(th)
    \/ \E th \in Threads : worker_sort(th)
    \/ \E th \in Threads : worker_loop(th)
    \/ \E th \in Threads : worker_del(th)
    \/ GraphTick

SpecWorkers == Init /\ [][NextWorkers]_vars

\* SpecRegions: find_regions_for_points on lists of one or two points
NextRegions ==
    \E points \in PointLists, index \in QueryIndexes : FindRegions(points, index)

SpecRegions == Init /\ [][NextRegions]_vars

\* SpecAlternatives: get_route_on_roads asked for 1..5 paths
MaxAlternatives == 5

AlternativeCalls ==
    {<<p, d, k>> : p \in {P10, P50}, d \in {P70, P10}, k \in 1..MaxAlternatives}

AlternativeSettings ==
    {<<GoodIndex, "none", {}>>, <<GoodIndex, "nearest", {}>>, <<EmptyIndex, "none", {}>>}

NextAlternatives ==
    \E c \in AlternativeCalls, s \in AlternativeSettings :
        Route(c[1], c[2], c[3], s[1], s[2], s[3])

SpecAlternatives == Init /\ [][NextAlternatives]_vars

\* SpecEta: the ETA of one path before and after one edge grows
NextEta ==
    \E G \in EtaGraphs : \E e \in G.edges, ln \in EtaLengths :
        eta_after_lengthening(G, e, ln)

SpecEta == Init /\ [][NextEta]_vars

\* SpecRouteLru: lookups and stores on the response cache, new keys in
\* the order of their numbers
NextRouteLru ==
    \/ \E i \in 1..MaxTouched : cache_get(i)
    \/ \E i \in 1..MaxKeys : cache_set(i)
    \/ RouteTick

SpecRouteLru == Init /\ [][NextRouteLru]_vars

\* SpecDeliveryRoute: route_for_delivery calling /route.  Time passes and
\* a caller that can go on does; nothing makes a computation on the worker
\* pool end.
NextDeliveryRoute ==
    \/ \E d \in Deliveries, reachable \in BOOLEAN : route_for_delivery(d[1], d[2], reachable)
    \/ \E i \in 1..MaxRequests, s \in RouteCacheSettings :
          route_finish(i, s[1], s[2], s[3])
    \/ \E n \in 1..MaxDeliveries : route_for_delivery_answer(n)
    \/ \E n \in 1..MaxDeliveries : route_for_delivery_timeout(n)
    \/ DeliveryTick

SpecDeliveryRoute ==
    /\ Init
    /\ [][NextDeliveryRoute]_vars
    /\ WF_vars(DeliveryTick)
    /\ \A n \in 1..MaxDeliveries :
          WF_vars(route_for_delivery_answer(n)) /\ WF_vars(route_for_delivery_timeout(n))

----------------------------------------------------------------------------
\* C11: every observer is sent the updates in the order the hub processed
\* them: on each channel the update numbers sent so far are increasing.
C11_ProcessingOrder ==
    \A ws \in MonitorSockets :
        \A i, j \in DOMAIN delivered[ws] :
            i < j => delivered[ws][i] < delivered[ws][j]

----------------------------------------------------------------------------
\* C12: an update that has been processed while an observer is connected is
\* eventually sent to that observer, or the observer stops being connected;
\* the driver of the update and the observer's subscribe hint play no part.
Processed(n) == \E i \in DOMAIN tasks : tasks[i].id = n /\ tasks[i].st = "created"

C12_EveryUpdateReachesEveryObserver ==
    \A n \in 1..MaxUpdates, ws \in MonitorSockets :
        (Processed(n) /\ mconn[ws] = "open")
            ~> (n \in Range(delivered[ws]) \/ mconn[ws] # "open")

\* an observer that asked for D2 has been sent an update of D1 and one of D2
C12_Witness ==
    \E ws \in MonitorSockets :
        /\ hints[ws] = "D2"
        /\ mconn[ws] = "open"
        /\ \E n, m \in Range(delivered[ws]) :
              log[n].driver = "D1" /\ log[m].driver = "D2"

----------------------------------------------------------------------------
\* C13: whatever the interleaving of the loads on the worker threads, no
\* call raises, each call returns a complete triple or the null triple, and
\* when no call is running the cache holds at most MAX_LOADED_COMPOSED
\* entries.
CompleteTriple(val) == val.unproj # {} /\ val.proj /\ val.simple

C13_ConcurrentLoads ==
    /\ \A th \in Threads :
          \/ workers[th].out = NoReturn
          \/ /\ workers[th].out.kind = "triple"
             /\ \/ workers[th].out.val = NullTriple
                \/ CompleteTriple(workers[th].out.val)
    /\ (\A th \in Threads : workers[th].pc = "idle")
          => Len(loaded_cache) <= MAX_LOADED_COMPOSED

----------------------------------------------------------------------------
\* C14 (as amended): when at least one of the points lies inside or on the
\* boundary of an indexed region's bounding box, find_regions_for_points
\* returns exactly the files of the regions whose bounding box contains at
\* least one of the points, sorted and without repetition; for one point in
\* exactly one bounding box that is the one file.
LonLat(p) == IF p.k = "tuple" THEN <<p.v[2], p.v[1]>> ELSE <<p.lng, p.lat>>

InBox(p, bbox) ==
    /\ bbox[1] <= LonLat(p)[1] /\ LonLat(p)[1] <= bbox[3]
    /\ bbox[2] <= LonLat(p)[2] /\ LonLat(p)[2] <= bbox[4]

Containing(points, index) ==
    {index[i].path : i \in {j \in DOMAIN index :
                               /\ index[j].has_bbox
                               /\ \E n \in DOMAIN points : InBox(points[n], index[j].bbox)}}

IsListOf(paths, S) ==
    /\ Range(paths) = S
    /\ Len(paths) = Cardinality(S)
    /\ \A i, j \in DOMAIN paths : i < j => StrLess(paths[i], paths[j])

C14_RegionsOfPoints ==
    call.op = "find_regions" =>
        (Containing(call.points, call.index) # {} =>
            /\ ~ret.raised
            /\ IsListOf(ret.paths, Containing(call.points, call.index)))

\* two points, a dict on a corner of the first bounding box and a pair on a
\* corner of the second, resolve to the two files
C14_Witness ==
    /\ call.op = "find_regions"
    /\ call.points = <<Pt(0, 20), Tup(20, 80)>>
    /\ call.index = ThreeIndex
    /\ ret.paths = <<PathA, PathB>>

\* C14 (as stated): for any points the result is the union of the regions
\* whose bounding box contains at least one of them.
C14_UnionOfContaining ==
    call.op = "find_regions" =>
        /\ ~ret.raised
        /\ IsListOf(ret.paths, Containing(call.points, call.index))

----------------------------------------------------------------------------
\* C15: a call for k paths (1 <= k <= 5) returns the primary path and at
\* most k - 1 alternates; for k = 1 there is no alternate.
C15_AtMostKPaths ==
    (call.op = "route" /\ ret.kind = "route")
    => /\ 1 + Len(ret.alt_routes) <= call.num_alternatives
       /\ call.num_alternatives = 1 => ret.alt_routes = <<>>

\* a call for two paths between two nodes joined by two paths has returned
\* the primary and one alternate
C15_Witness ==
    /\ call.op = "route" /\ ret.kind = "route"
    /\ call.pickup = P10 /\ call.dropoff = P70
    /\ call.num_alternatives = 2
    /\ ret.eta_min # Null
    /\ Len(ret.alt_routes) = 1

----------------------------------------------------------------------------
\* C16: raising the length of one edge between two consecutive nodes of the
\* path, everything else unchanged, never lowers the ETA of the path.
C16_EtaMonotone ==
    call.op = "eta" => ret.after >= ret.before

----------------------------------------------------------------------------
\* C17: the response cache never holds more than ROUTE_CACHE_MAX entries;
\* a store of a new key at capacity evicts max(1, 10% of ROUTE_CACHE_MAX)
\* entries, none of them looked up or stored later than an entry that is
\* kept, and a store below capacity evicts nothing.
KeysOf(d) == {d[i].key : i \in DOMAIN d}

AccessOf(key) == route_cache_access_order[CacheIndex(route_cache_access_order, key)].ts

StoreOfNewKey ==
    \E key \in KeysOf(route_cache') : key \notin KeysOf(route_cache)

EvictsTheOldest ==
    LET gone == KeysOf(route_cache) \ KeysOf(route_cache')
    IN  /\ Cardinality(gone) = IF Len(route_cache) >= ROUTE_CACHE_MAX
                                THEN EvictCount ELSE 0
        /\ \A g \in gone : \A kept \in KeysOf(route_cache) \ gone :
              AccessOf(g) <= AccessOf(kept)

C17_CapacityAndOldestFirst ==
    /\ [](Len(route_cache) <= ROUTE_CACHE_MAX)
    /\ [][StoreOfNewKey => EvictsTheOldest]_vars

\* the cache was full, its two first-stored keys have since been looked up
\* or stored again, and a later store has evicted two other keys
C17_Witness ==
    /\ Len(route_cache) = ROUTE_CACHE_MAX - 1
    /\ {LruKey(1), LruKey(2), LruKey(ROUTE_CACHE_MAX + 1)} \subseteq KeysOf(route_cache)
    /\ {LruKey(3), LruKey(4)} \cap KeysOf(route_cache) = {}

----------------------------------------------------------------------------
\* C18: a lookup answers from the cache only when the key has an entry
\* whose last store is at most the TTL ago, and it then changes nothing
\* but the last-access time of that key; a lookup that finds an entry older
\* than the TTL is a miss and removes the key from both maps; a lookup that
\* finds no entry changes nothing.
StoresOf(key) == {i \in DOMAIN responses : responses[i].stored /\ KeyOfRequest(responses[i]) = key}

LastStoreOf(key) == responses[CHOOSE i \in StoresOf(key) : \A j \in StoresOf(key) : j <= i]

LookupHit ==
    /\ Len(responses') = Len(responses) + 1
    /\ responses'[Len(responses')].from_cache

LookupMiss == Len(pending') = Len(pending) + 1

HitIsFresh ==
    LET r == responses'[Len(responses')]
        key == KeyOfRequest(r)
    IN  /\ key \in KeysOf(route_cache)
        /\ StoresOf(key) # {}
        /\ now - LastStoreOf(key).at <= ROUTE_CACHE_TTL
        /\ r.result = LastStoreOf(key).result
        /\ route_cache' = route_cache
        /\ KeysOf(route_cache_access_order') = KeysOf(route_cache_access_order)
        /\ \A i \in DOMAIN route_cache_access_order' :
              route_cache_access_order'[i].ts =
                  IF route_cache_access_order'[i].key = key THEN now
                  ELSE route_cache_access_order[CacheIndex(route_cache_access_order,
                           route_cache_access_order'[i].key)].ts

MissIsAbsentOrExpired ==
    LET key == KeyOfRequest(pending'[Len(pending')])
    IN  IF key \in KeysOf(route_cache)
        THEN /\ now - LastStoreOf(key).at > ROUTE_CACHE_TTL
             /\ KeysOf(route_cache') = KeysOf(route_cache) \ {key}
             /\ KeysOf(route_cache_access_order') = KeysOf(route_cache_access_order) \ {key}
        ELSE /\ route_cache' = route_cache
             /\ route_cache_access_order' = route_cache_access_order

C18_LookupHonoursTtl ==
    [][(LookupHit => HitIsFresh) /\ (LookupMiss => MissIsAbsentOrExpired)]_vars

\* a result stored at one instant was returned from the cache exactly one
\* TTL later, and a request one second after that was a miss that removed
\* the entry
C18_Witness ==
    \E i, j \in DOMAIN responses :
        /\ responses[i].stored /\ responses[i].at = 0
        /\ responses[j].from_cache /\ responses[j].at = ROUTE_CACHE_TTL
        /\ KeyOfRequest(responses[j]) = KeyOfRequest(responses[i])
        /\ now = ROUTE_CACHE_TTL + 1
        /\ pending # <<>>
        /\ KeyOfRequest(pending[1]) = KeyOfRequest(responses[i])
        /\ KeyOfRequest(responses[i]) \notin KeysOf(route_cache)

----------------------------------------------------------------------------
\* C19: a /route request does not stay pending: whether or not its
\* computation ends, the request is answered (by the result, the generic
\* failure, or a timeout error of its own).
Answered(i) == \E j \in DOMAIN responses : responses[j].id = i

----------------------------------------------------------------------------
\* C20: a load that inserts a key into a full graph cache evicts as many
\* entries as exceed the capacity, none of them with a later timestamp than
\* an entry that is kept, and the inserted key is in the cache after the
\* load; nothing is evicted otherwise; a memory hit changes nothing but the
\* timestamp of the key, which becomes the time of the hit.
StampOf(key) == loaded_cache[CacheIndex(loaded_cache, key)].ts

Inserted == KeysOf(loaded_cache') \ KeysOf(loaded_cache)

Evicted == KeysOf(loaded_cache) \ KeysOf(loaded_cache')

InsertEvictsOldest ==
    /\ Evicted # {} => Cardinality(Inserted) = 1
    /\ Inserted # {} =>
          /\ Cardinality(Evicted) =
                IF Len(loaded_cache) + 1 > MAX_LOADED_COMPOSED
                THEN Len(loaded_cache) + 1 - MAX_LOADED_COMPOSED ELSE 0
          /\ \A g \in Evicted : \A kept \in KeysOf(loaded_cache) \ Evicted :
                StampOf(g) <= StampOf(kept)

HitRefreshes ==
    (Inserted = {} /\ Evicted = {} /\ loaded_cache' # loaded_cache) =>
        \E i \in DOMAIN loaded_cache :
            /\ loaded_cache' = [loaded_cache EXCEPT ![i].ts = now]
            /\ ret'.kind = "triple" /\ ret'.val = loaded_cache[i].val

----------------------------------------------------------------------------
\* the path list a recorded call hands to load_composed_subgraph_for_paths
PathsOf(c) ==
    IF c.op = "load" THEN c.paths
    ELSE SelectedRegions[<<c.pickup, c.dropoff, GoodIndex>>].paths

FilesOf(c) == {PathsOf(c)[i] : i \in DOMAIN PathsOf(c)}

Recorded(c) == c.op \in {"load", "route"} /\ "bad" \in DOMAIN c

\* the recorded call c, made in the current state, gets past the memory
\* cache and the persisted entry to the region files
ReachesFiles(c) ==
    /\ Recorded(c)
    /\ CacheIndex(loaded_cache, KeyOfPaths[PathsOf(c)]) = 0
    /\ \/ persisted[KeyOfPaths[PathsOf(c)]] = NoFile
       \/ c.fault \in {"read_persisted", "project"}

\* C21: when a load gets to the region files and none of them loads, it
\* returns the null triple and the memory cache and the persisted cache are
\* as before; a get_route_on_roads call whose load ends so returns the
\* straight line with null ETA and no alternates.
C21_NoGraphsLoaded ==
    [][(ReachesFiles(call') /\ FilesOf(call') \subseteq call'.bad)
        => /\ loaded_cache' = loaded_cache
           /\ persisted' = persisted
           /\ call'.op = "load" => ret' = [kind |-> "triple", val |-> NullTriple]
           /\ call'.op = "route" => ret' = StraightLine(call'.pickup, call'.dropoff)]_vars

\* a route across both regions found their key gone from memory, its
\* persisted entry unreadable and neither region file loadable
C21_Witness ==
    /\ call.op = "route" /\ "bad" \in DOMAIN call
    /\ call.pickup = P10 /\ call.dropoff = P70
    /\ call.fault = "read_persisted" /\ call.bad = RegionPaths
    /\ persisted[KeyOfPaths[<<PathA, PathB>>]] # NoFile
    /\ Len(loaded_cache) = MAX_LOADED_COMPOSED
    /\ CacheIndex(loaded_cache, KeyOfPaths[<<PathA, PathB>>]) = 0
    /\ ret = StraightLine(P10, P70)

----------------------------------------------------------------------------
\* the recorded load c, made in the current state, misses the memory cache
\* and finds a persisted entry under its key
FindsPersisted(c) ==
    /\ c.op = "load" /\ Recorded(c)
    /\ CacheIndex(loaded_cache, KeyOfPaths[c.paths]) = 0
    /\ persisted[KeyOfPaths[c.paths]] # NoFile

\* the triple read back from the persisted entry of key
PersistedTriple(key) ==
    [unproj |-> persisted[key].unproj, proj |-> TRUE, simple |-> persisted[key].simple]

\* the load of this step returned the persisted graphs, tried no region
\* file, and put the entry into the memory cache within capacity
ServedFromDisk ==
    LET key == KeyOfPaths[call'.paths]
    IN  /\ ret' = [kind |-> "triple", val |-> PersistedTriple(key)]
        /\ call'.tried = {}
        /\ persisted' = persisted
        /\ CacheIndex(loaded_cache', key) # 0
        /\ loaded_cache'[CacheIndex(loaded_cache', key)].val = PersistedTriple(key)
        /\ Len(loaded_cache') <= MAX_LOADED_COMPOSED
        /\ KeysOf(loaded_cache') \subseteq KeysOf(loaded_cache) \cup {key}

\* the load of this step went on to the region files and returned what
\* they compose to
Recomposed ==
    /\ call'.tried = FilesOf(call')
    /\ ret'.kind = "triple"
    /\ ret'.val.unproj = FilesOf(call') \ call'.bad

----------------------------------------------------------------------------
\* SpecSimplify: the simplification applied to multigraphs with parallel
\* edges of every kind of length
NextSimplify == \E G \in SimplifyGraphs : simplify(G)

SpecSimplify == Init /\ [][NextSimplify]_vars

\* the numeric lengths among the parallel edges u -> v of G
UsableLengths(G, u, v) ==
    {e.length.v : e \in {x \in G.edges : x.u = u /\ x.v = v /\ ~FloatRaises(x.length)}}

\* C23: the simplified graph has an edge exactly for the ordered node pairs
\* with an edge in the multigraph; its weight is the least usable length
\* among the parallel edges, and 1 only when none of them has a usable
\* length.
C23_MinUsableLength ==
    call.op = "simplify" =>
        /\ DOMAIN ret.graph.weight = {<<e.u, e.v>> : e \in call.graph.edges}
        /\ \A pair \in DOMAIN ret.graph.weight :
              ret.graph.weight[pair] =
                  IF UsableLengths(call.graph, pair[1], pair[2]) = {} THEN 1
                  ELSE MinOf(UsableLengths(call.graph, pair[1], pair[2]))

----------------------------------------------------------------------------
\* the node with the coordinates xy
NodeAt(xy) == CHOOSE n \in DOMAIN NodeXY : NodeXY[n] = xy

NodesOf(coords) == [i \in DOMAIN coords |-> NodeAt(coords[i])]

\* the node paths of a routed result: the primary, then the alternates
CollectedPaths(r) ==
    <<NodesOf(r.route_coords)>> \o [i \in DOMAIN r.alt_routes |-> NodesOf(r.alt_routes[i])]

\* the region files a routing call over the good index composes
RoutedFiles(c) ==
    LET paths == SelectedRegions[<<c.pickup, c.dropoff, GoodIndex>>].paths
    IN {paths[i] : i \in DOMAIN paths}

\* p runs from s to t along edges of Gs and repeats no node
LooplessFromTo(Gs, p, s, t) ==
    /\ Len(p) >= 1 /\ p[1] = s /\ p[Len(p)] = t
    /\ \A i \in 1..(Len(p) - 1) : <<p[i], p[i + 1]>> \in DOMAIN Gs.weight
    /\ \A i, j \in DOMAIN p : i # j => p[i] # p[j]

\* C24: the paths of a routed result are pairwise distinct loopless paths
\* from the origin node to the destination node of the simplified graph; the
\* i-th of them is an i-th lightest simple path, so they are in
\* non-decreasing order of weight and the primary is a lightest one; and
\* there are k of them, or all simple paths when these are fewer than k.
C24_ShortestSimplePaths ==
    (call.op = "route" /\ ret.kind = "route" /\ ret.eta_min # Null)
    => LET Gs == SimpleGraphs[RoutedFiles(call)]
           G == ComposedGraphs[RoutedFiles(call)]
           s == nearest_nodes(G, call.pickup.lng, call.pickup.lat)
           t == nearest_nodes(G, call.dropoff.lng, call.dropoff.lat)
           all == SimplePaths(Gs, s, t)
           got == CollectedPaths(ret)
           w(p) == PathWeight(Gs, p)
       IN  /\ \A i \in DOMAIN got : LooplessFromTo(Gs, got[i], s, t)
           /\ \A i, j \in DOMAIN got : i # j => got[i] # got[j]
           /\ \A i, j \in DOMAIN got : i < j => w(got[i]) <= w(got[j])
           /\ \A i \in DOMAIN got :
                 /\ Cardinality({q \in all : w(q) < w(got[i])}) < i
                 /\ Cardinality({q \in all : w(q) <= w(got[i])}) >= i
           /\ Len(got) = IF Cardinality(all) < call.num_alternatives
                         THEN Cardinality(all) ELSE call.num_alternatives

\* a call for three paths across both regions got the two simple paths
\* there are: the three-hop path of 600 first, the two-hop path of 700 second
C24_Witness ==
    /\ call.op = "route" /\ ret.kind = "route" /\ ret.eta_min # Null
    /\ call.pickup = P10 /\ call.dropoff = P70 /\ call.num_alternatives = 3
    /\ CollectedPaths(ret) = <<<<1, 2, 3, 4>>, <<1, 2, 4>>>>

----------------------------------------------------------------------------
\* SpecEtaRule: the ETA of the only path of a graph, its first edge taking
\* every combination of length, speed_kph and maxspeed
NextEtaRule == \E G \in RuleGraphs : eta_of_path(G)

SpecEtaRule == Init /\ [][NextEtaRule]_vars

\* the speed of an edge as stated: its speed attribute, else the number of
\* its maxspeed tag; 40 when that is absent, not a number or not positive
StatedSpeed(e) ==
    LET raw == IF e.speed_kph.k # "absent" THEN e.speed_kph
               ELSE IF e.maxspeed.k \in {"num", "numstr"} THEN Num(e.maxspeed.v)
               ELSE Absent
    IN  IF FloatRaises(raw) THEN 40
        ELSE IF raw.v <= 0 THEN 40 ELSE raw.v

\* length_m / 1000 / speed_kph * 60 in 1/2000 minute; an edge without a
\* numeric length counts for nothing
StatedTerm(e) ==
    IF FloatRaises(e.length) THEN 0 ELSE (e.length.v * 120) \div StatedSpeed(e)

\* the edge from u to v of a graph with one edge per node pair
TheEdge(G, u, v) == CHOOSE e \in G.edges : e.u = u /\ e.v = v

\* C25: eta_min is the sum over the consecutive node pairs of the primary
\* path of length_m / 1000 / speed_kph * 60, the speed being the edge's
\* speed attribute, else the number of its maxspeed tag, and 40 when the
\* speed is absent, not a number or not positive; so 5000 m at 50 km/h
\* give 6 minutes.
C25_EtaIsSumOverEdges ==
    call.op = "eta_of_path" =>
        ret.eta_min = StatedTerm(TheEdge(call.graph, 1, 2))
                      + StatedTerm(TheEdge(call.graph, 2, 3))

----------------------------------------------------------------------------
\* four times the squared distance from p to the centre of bbox
SqDist4(p, bbox) ==
    (2 * LonLat(p)[1] - (bbox[1] + bbox[3])) * (2 * LonLat(p)[1] - (bbox[1] + bbox[3]))
    + (2 * LonLat(p)[2] - (bbox[2] + bbox[4])) * (2 * LonLat(p)[2] - (bbox[2] + bbox[4]))

Boxed(index) == {i \in DOMAIN index : index[i].has_bbox}

\* the files of the regions whose centre is nearest to p
NearestFiles(p, index) ==
    {index[i].path : i \in {j \in Boxed(index) :
        \A m \in Boxed(index) : SqDist4(p, index[j].bbox) <= SqDist4(p, index[m].bbox)}}

\* C26: when some point lies in an indexed bounding box the result is the
\* files of the containing regions and nothing of the nearest-centre
\* fallback; when none does, the result is, for each point, a region whose
\* bbox centre is nearest to it; the result is always sorted without
\* duplicates, and not empty when some region has a bbox and a point is given.
C26_FallbackIffNoHit ==
    (call.op = "find_regions" /\ ~ret.raised) =>
        /\ \A i, j \in DOMAIN ret.paths : i < j => StrLess(ret.paths[i], ret.paths[j])
        /\ Containing(call.points, call.index) # {}
              => Range(ret.paths) = Containing(call.points, call.index)
        /\ Containing(call.points, call.index) = {}
              => /\ \A path \in Range(ret.paths) :
                       \E n \in DOMAIN call.points :
                           path \in NearestFiles(call.points[n], call.index)
                 /\ \A n \in DOMAIN call.points :
                       Boxed(call.index) # {} =>
                           NearestFiles(call.points[n], call.index) \cap Range(ret.paths) # {}
        /\ (Boxed(call.index) # {} /\ call.points # <<>>) => ret.paths # <<>>

\* two points outside both bounding boxes, the first nearest to the centre
\* of the first region and the second to that of the second
C26_Witness ==
    /\ call.op = "find_regions"
    /\ call.points = <<PFar, Tup(10, 90)>>
    /\ call.index = GoodIndex
    /\ Containing(call.points, call.index) = {}
    /\ ret.paths = <<PathA, PathB>>

----------------------------------------------------------------------------
\* the messages of SpecTable: a valid one, one whose lat makes float()
\* raise, one without lng, and a frame that is not JSON
TableMsgs ==
    {Msg(Num(1), Num(7), Absent, Absent), Msg(BadStr, Num(7), Absent, Absent),
     Msg(Num(1), Absent, Absent, Absent), NotJson}

\* SpecTable: the channels of drivers and of one observer opening, closing
\* and failing, updates over the websocket and over HTTP, the fan-out, the
\* sweep and the clock
NextTable ==
    \/ \E ws \in RetentionSockets, d \in DriverIds : ws_driver_connect(ws, d)
    \/ \E ws \in RetentionSockets, msg \in TableMsgs : ws_driver_ignore(ws, msg)
    \/ \E ws \in RetentionSockets, msg \in TableMsgs : ws_driver_error(ws, msg)
    \/ \E ws \in RetentionSockets, msg \in TableMsgs : ws_driver_location(ws, msg)
    \/ \E ws \in RetentionSockets : ws_driver_disconnect(ws)
    \/ \E d \in DriverIds, msg \in TableMsgs : post_location(d, msg)
    \/ \E d \in DriverIds, msg \in TableMsgs : post_location_rejected(d, msg)
    \/ \E ws \in HubMonitors : ws_monitor_connect(ws)
    \/ \E ws \in HubMonitors : monitor_drop(ws)
    \/ \E ws \in HubMonitors : ws_monitor_disconnect(ws)
    \/ broadcast_snapshot
    \/ \E i \in 1..MaxUpdates, ws \in HubMonitors : safe_send_ok(i, ws)
    \/ \E i \in 1..MaxUpdates, ws \in HubMonitors : safe_send_fail(i, ws)
    \/ periodic_cleanup
    \/ HubTick

SpecTable == Init /\ [][NextTable]_vars

\* this step processed an update of driver d and stored it as d's record
Upserted(d) ==
    /\ Len(log') = Len(log) + 1
    /\ log'[Len(log')].svc = "hub" /\ log'[Len(log')].driver = d
    /\ Carries(last_known'[d], log'[Len(log')])

\* this step is a sweep and d's record was received before the cutoff
Swept(d) ==
    /\ periodic_cleanup
    /\ last_known[d] # NoRecord
    /\ last_known[d].received_at < now - LOCATION_RETENTION_SECONDS
    /\ last_known'[d] = NoRecord

\* a channel of a driver or of an observer opens, closes or fails, or a
\* send to an observer fails
ChannelEvent ==
    \/ \E ws \in RetentionSockets, d \in DriverIds : ws_driver_connect(ws, d)
    \/ \E ws \in RetentionSockets, msg \in TableMsgs : ws_driver_error(ws, msg)
    \/ \E ws \in RetentionSockets : ws_driver_disconnect(ws)
    \/ \E ws \in HubMonitors : ws_monitor_connect(ws)
    \/ \E ws \in HubMonitors : monitor_drop(ws)
    \/ \E ws \in HubMonitors : ws_monitor_disconnect(ws)
    \/ \E i \in 1..MaxUpdates, ws \in HubMonitors : safe_send_fail(i, ws)

\* C27: a record of the last-known table changes only when an update of
\* that driver is accepted (it becomes that update) or when the sweep
\* removes it as stale; no channel event and no failed send changes a
\* record; and a sweep removes every stale record, also that of a driver
\* whose channel is registered.
C27_TableChangesOnlyByUpdateAndSweep ==
    [][/\ \A d \in DriverIds :
             last_known'[d] # last_known[d] => (Upserted(d) \/ Swept(d))
       /\ ChannelEvent => last_known' = last_known
       /\ periodic_cleanup =>
             \A d \in DriverIds :
                 (/\ last_known[d] # NoRecord
                  /\ last_known[d].received_at < now - LOCATION_RETENTION_SECONDS)
                 => last_known'[d] = NoRecord]_vars

\* D1 sent an update over its websocket at time 0; its record has been
\* swept while the websocket is still D1's registered channel
C27_Witness ==
    /\ drivers["D1"] = "A" /\ dconn["A"].st = "open"
    /\ UpdatesOf("hub", "D1") # {} /\ LastOf("hub", "D1").via = "ws"
    /\ LastOf("hub", "D1").at = 0
    /\ now > LOCATION_RETENTION_SECONDS
    /\ last_known["D1"] = NoRecord

----------------------------------------------------------------------------
\* SpecKeys: loads of region files with a space, an underscore or a "|" in
\* their names, every file loading and no library failing
NextKeys ==
    \/ \E paths \in KeyInputs : LoadCall(paths, "none", {})
    \/ LoadTick

SpecKeys == Init /\ [][NextKeys]_vars

\* C28: the path list of a load has the key of another path list exactly
\* when the two hold the same set of region files, whatever their order;
\* and the graph a load returns was composed from the files of its own
\* path list.
C28_KeySeparatesPathSets ==
    (call.op = "load") =>
        /\ \A paths \in KeyInputs :
               (KeyOfPaths[paths] = KeyOfPaths[call.paths])
               <=> (Range(paths) = FilesOf(call))
        /\ (ret.kind = "triple" /\ ret.val # NullTriple) => ret.val.unproj = FilesOf(call)

\* the part of C28 about the order: a path list and its reordering have one
\* key, and the second of two such loads is served from memory
C28_OrderIndependent ==
    (call.op = "load") =>
        \A paths \in KeyInputs :
            (Range(paths) = FilesOf(call)) => KeyOfPaths[paths] = KeyOfPaths[call.paths]

----------------------------------------------------------------------------
\* C29: every entry of the in-memory graph cache is a triple of an
\* unprojected, a projected and a simplified graph, none of them None, and
\* every pair written to the persisted cache holds an unprojected and a
\* simplified graph, none of them None: a composition whose projection or
\* simplification failed is stored in neither.
C29_CachedTriplesComplete ==
    /\ \A i \in DOMAIN loaded_cache : CompleteTriple(loaded_cache[i].val)
    /\ \A key \in CacheKeys :
           persisted[key] # NoFile =>
               (persisted[key].unproj # {} /\ persisted[key].simple)

----------------------------------------------------------------------------
\* SpecLocations: GET /locations on the threadpool while updates arrive over
\* HTTP and the sweep and the clock run on the event loop
LocationMsgs == {Msg(Num(1), Num(7), Absent, Absent), Msg(Num(2), Num(7), Absent, Absent)}

NextLocations ==
    \/ get_locations_count
    \/ get_locations_return
    \/ \E d \in DriverIds, msg \in LocationMsgs : post_location(d, msg)
    \/ periodic_cleanup
    \/ HubTick

SpecLocations == Init /\ [][NextLocations]_vars

\* C30: the count of a response of locations() is the number of entries of
\* the locations map of the same response.
C30_CountMatchesLocations ==
    (locations_call.pc = "done") =>
        locations_call.count = Cardinality(DOMAIN locations_call.locations)

====
